---- MODULE Spec2Model ----
(***************************************************************************)
(* Model of the bamboo protocol runtime (src/protocol/protocol.py) with    *)
(* its key registry (src/protocol/keys.py) and message builder             *)
(* (src/protocol/builder.py).                                              *)
(*                                                                         *)
(* One runtime instance is modelled.  Its transport is an opaque frame     *)
(* mover: every frame handed to it is recorded with the operation that     *)
(* sent it, a send may raise, and inbound frames are delivered by the      *)
(* environment in any order.  Waiting is modelled without a clock: a       *)
(* queue.get(timeout) returns the head of a non-empty queue, and raises    *)
(* queue.Empty only when the queue is empty.                               *)
(***************************************************************************)
EXTENDS Integers, Sequences, FiniteSets, TLC

\* ---------------------------------------------------------------- bounds
\* request / request_peer calls made in a run (one fresh transid each)
MaxTid == 2
\* frames the environment delivers into one rendezvous queue
MaxQueue == 2
\* length of the argument lists of add / remove / set_caps
MaxArgs == 2
\* largest value _rev takes in a run
MaxRev == 3
\* largest value of time.time()
MaxClock == 2
\* loop threads that Discovery.start creates in a run
MaxThreads == 2
\* value at which the counters of the announcer's activity stop counting
MaxCount == 4
\* length of the strings in a framed envelope
MaxStr == 2
\* length of a framed binary blob
MaxBin == 5

\* ---------------------------------------------------------------- domains
Tids == 1..MaxTid
\* threads that call request / request_peer
Callers == {"c1"}
Peers == {"B", "C"}
\* peers whose keys are taught to the registry
LearnPeers == {"B"}
\* destid None (broadcast)
NoDest == "none"
\* key None or "" (both falsy in the code)
NoKey == ""
Keys == {"x", "y"}
\* key sets handed to learn_peer_keys
KeySets == {{}, {"x"}}
\* RESP payloads delivered by the environment
Payloads == {"p1", "p2"}
\* PUB topics; "" is the empty topic
Topics == {"", "a", "b"}
\* topics that peers subscribe to and unsubscribe from
PeerTopics == {"", "a"}
\* transids of inbound SUBSCRIBE frames
InTids == {"u1", "u2"}
\* sourceid and transid of inbound REQ and CONFIG frames
Senders == {<<"B", "u1">>, <<"C", "u2">>}
\* the key that the node under inbound traffic registers
ServedKey == "x"
\* resp: None
NoResp == "null"
\* the transport's mtu attribute when it has none
NoMtu == 0
\* framed sizes len(pack_frame(msg)) of the messages sent, and the mtu
Sizes == {1, 2}
Mtus == {NoMtu, 1}

\* capabilities handed to set_caps
Caps == {"json", "bin"}
\* what a registered handler does when it is called: it returns a dict that
\* has "ok" or "error", returns another value, or raises
Handlers == {"returns_ok", "returns_data", "raises"}
\* positional argument lists *keys and *caps
ArgLists(S) == UNION {[1..n -> S] : n \in 0..MaxArgs}
\* set(args)
ArgSet(args) == {args[i] : i \in 1..Len(args)}

\* caps=None (a set apart from every set of capabilities), rev=None, and a
\* ts that is None or 0 ("ts or time.time()")
NoCaps == {"None"}
NoRev == -1
NoTs == 0
\* caps, rev and ts carried by a HELLO or handed to learn
CapSets == {NoCaps, {}, {"json"}}
PeerRevs == {NoRev, 1, 2}
PeerTs == {NoTs, 7}
\* subs carried by a HELLO
SubSets == {{}, {"a"}}

\* dict helpers: d[k] = v and d.pop(k, None)
DictPut(d, k, v) == [x \in (DOMAIN d) \cup {k} |-> IF x = k THEN v ELSE d[x]]
DictPop(d, k) == [x \in (DOMAIN d) \ {k} |-> d[x]]
EmptyDict == [x \in {} |-> {}]

VARIABLES
    calls,      \* per caller thread: its current call's message, position, outcome
    nextTid,    \* the next fresh transid (uuid4 in the code)
    ack_wait,   \* Protocol._ack_wait : transid -> queue of ACKs
    resp_wait,  \* Protocol._resp_wait: transid -> queue of RESP payloads
    remote,     \* KeyRegistry.remote : peer -> keys it serves
    remote_caps, \* KeyRegistry.remote_caps : peer -> caps
    remote_rev, \* KeyRegistry.remote_rev : peer -> revision
    last_seen,  \* KeyRegistry.last_seen
    clock,      \* time.time()
    mtu,        \* the transport's mtu attribute
    local_subs,   \* Protocol._local_subs : topics this node listens to
    evt_handlers, \* Protocol._evt_handlers: topics with a PUB handler
    subop,        \* the last listen / subscribe_topics call and its frames
    remote_subs,  \* Protocol._remote_subs: peer -> topics it declared
    pub,          \* the current publish call and its frames
    disp,         \* the last inbound dispatch and the frames it emitted
    local,        \* KeyRegistry.local : keys this node serves
    local_caps,   \* KeyRegistry.local_caps
    rev,          \* KeyRegistry._rev
    req_handlers, \* Protocol._req_handlers : key -> handler
    locop,        \* the last on / add / remove / set_caps call
    learnop,      \* the last learn call or HELLO frame and the registry before it
    inb,          \* the last inbound REQ / CONFIG / PUB / undecodable frame
    ann,          \* the Discovery announcer: _stop, its loop threads, its counters
    wire,         \* a Message, the frame pack_frame made of it, what unpack_frame gave
    rx,           \* the last ACK / RESP that found no waiter, and the slots then
    scan,         \* publish's iteration over _remote_subs.items(), item by item
    net           \* SUBSCRIBE frames broadcast and not yet received by the peer

reqVars == <<calls, nextTid, ack_wait, resp_wait>>
regVars == <<remote, remote_caps, remote_rev, last_seen, clock>>
subVars == <<local_subs, evt_handlers, subop>>
pubVars == <<remote_subs, pub, disp>>
coreVars == <<reqVars, regVars, mtu>>
locVars == <<local, local_caps, rev, req_handlers, locop>>
extVars == <<locVars, learnop, inb, ann, wire, rx, scan, net>>
vars == <<calls, nextTid, ack_wait, resp_wait, remote, remote_caps, remote_rev,
          last_seen, clock, mtu,
          local_subs, evt_handlers, subop, remote_subs, pub, disp,
          local, local_caps, rev, req_handlers, locop, learnop, inb, ann, wire, rx, scan, net>>

\* a frame handed to the transport by Protocol.send(msg): the envelope fields
\* the runtime sets (destid None maps to "broadcast:*", else "peer:<destid>")
Frame(type, key, destid, transid, add, remove) ==
    [type |-> type, key |-> key, destid |-> destid, transid |-> transid,
     add |-> add, remove |-> remove]

\* a transid made by the builder (uuid4), as opposed to a copied one
FreshTid == "new"

\* nothing broadcast yet: no frame on its way, no send that raised
NoNet == [q |-> <<>>, lost |-> FALSE]

\* no listen / subscribe_topics call made yet
NoSubOp == [op |-> "none", add |-> {}, remove |-> {}, added |-> {}, removed |-> {},
            frames |-> <<>>, status |-> "none"]

\* no publish call made yet.  A publish call records its topic, the peers
\* subscribed to it when the call was made, the list subs it computed, the
\* peers still to be served, the frames it handed to the transport, and its
\* return value (-1: none) and status.
NoPub == [pc |-> "none", topic |-> "", subscribed |-> {}, subs |-> {}, todo |-> {},
          frames |-> <<>>, ret |-> -1, status |-> "none"]

\* no frame dispatched yet
NoDisp == [type |-> "none", frames |-> <<>>, status |-> "none"]

\* no on / add / remove / set_caps call made yet.  Such a call records its
\* argument list (on: the one key), whether on's key was new to local, and
\* the value of _rev when it was made.
NoLocOp == [op |-> "none", args |-> <<>>, fresh |-> FALSE, rev0 |-> 0]

\* no learn call made and no HELLO dispatched yet.  Such an operation records
\* its arguments (peer, keys, caps, rev, ts), the three remote tables before
\* it, time.time() when it ran, and whether it returned or raised; a HELLO
\* also the subs of its payload and remote_subs before it.
NoLearnOp == [op |-> "none", peer |-> NoDest, keys |-> {}, caps |-> NoCaps,
              rev |-> NoRev, ts |-> NoTs, remote0 |-> EmptyDict,
              caps0 |-> EmptyDict, rev0 |-> EmptyDict, now |-> 0, status |-> "none",
              subs |-> {}, subs0 |-> EmptyDict]

\* no REQ / CONFIG / PUB / undecodable frame dispatched yet.  Such a dispatch
\* records the frame's envelope (type, key, sourceid, whether destid is
\* present, transid, whether the payload has a truthy noresp or _noresp),
\* whether a handler was invoked and what it did, and the dispatcher's
\* steps in the order it took them: "ack" and "resp" for a frame handed to
\* the transport, "handler" for a call of the handler; for a SUBSCRIBE its
\* add and remove lists and remote_subs as it was before.
NoInb == [type |-> "none", key |-> NoKey, src |-> NoDest, directed |-> FALSE,
          transid |-> "none", noresp |-> FALSE, called |-> FALSE, outcome |-> "none",
          events |-> <<>>, add |-> {}, remove |-> {}, subs0 |-> EmptyDict]

\* the announcer after Discovery.__init__: _stop False and no loop thread
\* started.  loops lists the threads started so far, each with its position
\* in _loop and the frames it has sent since it last woke up, each frame
\* with the registry as it was when the frame was built; the last thread is
\* self._thread.  wakes and sent count, while _stop is True, the times a loop
\* returned from time.sleep and the frames sent since stop() set it; hello
\* is the outcome of the last Protocol.announce_hello call.
NoAnn == [stop |-> FALSE, loops |-> <<>>, wakes |-> 0, sent |-> 0,
          hello |-> [status |-> "none", frames |-> <<>>]]

\* no ACK / RESP dropped yet.  A dropped frame is recorded with its type, its
\* transid and the transids that had a slot when it came in.
NoRx == [type |-> "none", transid |-> 0, slots |-> {}]

\* no scan of _remote_subs made yet.  A scan records its topic, the dict as
\* it was when the iterator was made, the keys visited and the list built
\* so far, and how it ended.
NoScan == [pc |-> "none", topic |-> "", table0 |-> EmptyDict, seen |-> {},
           subs |-> {}, status |-> "none"]

\* no message framed yet
NoWire == [pc |-> "none", m |-> <<>>, frame |-> <<>>, out |-> <<>>]

\* a call that has not been made yet.  Besides the message (api, type, key,
\* dest, size), the position pc and the result (status, resp), a call records
\* what happened to it: nsent, the frames it handed to the transport;
\* installed, whether it installed its slots; known and served, whether the
\* registry knew dest and listed key for it when the call was made; ackIn,
\* whether an ACK with its transid reached the dispatcher while it waited for
\* the ACK; respFirst and respWhen, the payload of the first RESP with its
\* transid that reached the dispatcher while it waited, and whether that was
\* before the ACK came in, after it but before the caller took it, or later;
\* hasResp, whether the dict it returned has a "resp" entry.
NoCall == [pc |-> "none", tid |-> 0, api |-> "none", type |-> "none", key |-> NoKey,
           dest |-> NoDest, size |-> 0, status |-> "none", resp |-> NoResp,
           nsent |-> 0, installed |-> FALSE, known |-> FALSE, served |-> FALSE,
           ackIn |-> FALSE, respFirst |-> NoResp, respWhen |-> "none",
           hasResp |-> FALSE]

InitRuntime ==
    /\ calls = [c \in Callers |-> NoCall]
    /\ nextTid = 1
    /\ ack_wait = EmptyDict
    /\ resp_wait = EmptyDict
    /\ remote = EmptyDict
    /\ remote_caps = EmptyDict
    /\ remote_rev = EmptyDict
    /\ last_seen = EmptyDict
    /\ clock = 1
    /\ mtu \in Mtus
    /\ local_subs = {}
    /\ evt_handlers = {}
    /\ subop = NoSubOp
    /\ remote_subs = EmptyDict
    /\ pub = NoPub
    /\ disp = NoDisp
    /\ local = {}
    /\ local_caps = {"json"}
    /\ rev = 0
    /\ req_handlers = EmptyDict
    /\ locop = NoLocOp
    /\ learnop = NoLearnOp
    /\ inb = NoInb
    /\ ann = NoAnn
    /\ rx = NoRx
    /\ scan = NoScan
    /\ net = NoNet

\* the state after construction
Init == InitRuntime /\ wire = NoWire

\* ------------------------------------------------------------ KeyRegistry
\* KeyRegistry.peer_supports
peer_supports(peer_id, key) ==
    key \in (IF peer_id \in DOMAIN remote THEN remote[peer_id] ELSE {})

\* Stale for a registry that takes every revision it is given
Stale_Never(peer_id, r) == FALSE

\* "rev is not None and peer_id in self.remote_rev and
\* rev < self.remote_rev[peer_id]"
Stale(peer_id, r) ==
    r # NoRev /\ peer_id \in DOMAIN remote_rev /\ r < remote_rev[peer_id]

\* "ts or time.time()"
SeenAt(ts) == IF ts # NoTs THEN ts ELSE clock

\* KeyRegistry.learn(peer_id, keys, caps=, rev=, ts=) with replace=True
learn(peer_id, keys, caps, r, ts) ==
    /\ IF Stale(peer_id, r)
       THEN UNCHANGED <<remote, remote_caps, remote_rev>>
       ELSE /\ remote' = DictPut(remote, peer_id, keys)
            /\ remote_caps' = IF caps # NoCaps THEN DictPut(remote_caps, peer_id, caps)
                               ELSE remote_caps
            /\ remote_rev' = IF r # NoRev THEN DictPut(remote_rev, peer_id, r)
                              ELSE remote_rev
    /\ last_seen' = DictPut(last_seen, peer_id, SeenAt(ts))
    /\ UNCHANGED clock

\* Protocol.learn_peer_keys
LearnPeerKeys ==
    \E p \in LearnPeers, ks \in KeySets :
        /\ learn(p, ks, NoCaps, NoRev, NoTs)
        /\ UNCHANGED <<reqVars, mtu, subVars, pubVars, extVars>>

\* ------------------------------------------------------------ MessageBuilder
\* MessageBuilder.build raises ValueError: a direct REQ/CONFIG/PUB without key
BuildFails(type, key, destid) ==
    /\ destid # NoDest
    /\ type \in {"REQ", "CONFIG", "PUB"}
    /\ key = NoKey

\* ------------------------------------------------------------ request
\* Protocol.request: "if msg.env.key and not self.keys.peer_supports(...)"
KeyGate(key, destid) == key # NoKey /\ ~peer_supports(destid, key)

\* Protocol._request_with_timeout: "mtu is not None and len(frame) > int(mtu)"
MtuGuard(size) == mtu # NoMtu /\ size > mtu

\* "with self._lock: self._ack_wait[transid] = qa; self._resp_wait[transid] = qr"
InstallSlots(t) ==
    /\ ack_wait' = DictPut(ack_wait, t, <<>>)
    /\ resp_wait' = DictPut(resp_wait, t, <<>>)

\* "finally: with self._lock: self._ack_wait.pop(...); self._resp_wait.pop(...)"
PopSlots(t) ==
    /\ ack_wait' = DictPop(ack_wait, t)
    /\ resp_wait' = DictPop(resp_wait, t)

\* "self.send(msg)" after the slots are installed and before the try block:
\* the call m goes on to wait for its ACK, or, when the transport raises, the
\* exception leaves the call at once (the finally block is not entered).
SendDirect(m, sendOk) ==
    [m EXCEPT !.installed = TRUE, !.nsent = @ + 1,
              !.pc = IF sendOk THEN "await_ack" ELSE "done",
              !.status = IF sendOk THEN @ ELSE "send_error"]

\* a thread makes its next call once its previous one is over
MayStart(c) ==
    /\ calls[c].pc \in {"none", "done"}
    /\ nextTid <= MaxTid

NewCall(api, type, key, dest, size) ==
    [NoCall EXCEPT !.tid = nextTid, !.api = api, !.type = type, !.key = key,
                   !.dest = dest, !.size = size,
                   !.known = dest \in DOMAIN remote,
                   !.served = dest \in DOMAIN remote /\ key \in remote[dest]]

\* Protocol.request(msg), up to its first wait.  A send may raise.
RequestEnter(c) ==
    /\ MayStart(c)
    /\ \E type \in {"REQ", "CONFIG"}, key \in Keys \cup {NoKey},
          dest \in LearnPeers \cup {NoDest}, size \in Sizes, sendOk \in BOOLEAN :
        LET m == NewCall("request", type, key, dest, size) IN
        IF dest = NoDest
        THEN /\ calls' = [calls EXCEPT ![c] =
                    [m EXCEPT !.pc = "done", !.nsent = 1,
                              !.status = IF sendOk THEN "sent" ELSE "send_error"]]
             /\ UNCHANGED <<ack_wait, resp_wait>>
        ELSE IF KeyGate(key, dest)
        THEN /\ sendOk
             /\ calls' = [calls EXCEPT ![c] =
                    [m EXCEPT !.pc = "done", !.status = "no_key"]]
             /\ UNCHANGED <<ack_wait, resp_wait>>
        ELSE /\ calls' = [calls EXCEPT ![c] = SendDirect(m, sendOk)]
             /\ InstallSlots(nextTid)
    /\ nextTid' = nextTid + 1
    /\ UNCHANGED <<regVars, mtu, subVars, pubVars, extVars>>

\* Protocol.request_peer(peer_id, key, payload, timeout_s): build a REQ, then
\* _request_with_timeout up to its first wait.
RequestPeerEnter(c) ==
    /\ MayStart(c)
    /\ \E key \in Keys \cup {NoKey}, peer \in LearnPeers, size \in Sizes,
          sendOk \in BOOLEAN :
        LET m == NewCall("request_peer", "REQ", key, peer, size) IN
        IF BuildFails("REQ", key, peer)
        THEN /\ sendOk
             /\ calls' = [calls EXCEPT ![c] =
                    [m EXCEPT !.pc = "done", !.status = "invalid_envelope"]]
             /\ UNCHANGED <<ack_wait, resp_wait>>
        ELSE IF MtuGuard(size)
        THEN /\ sendOk
             /\ calls' = [calls EXCEPT ![c] =
                    [m EXCEPT !.pc = "done", !.status = "too_large"]]
             /\ UNCHANGED <<ack_wait, resp_wait>>
        ELSE /\ calls' = [calls EXCEPT ![c] = SendDirect(m, sendOk)]
             /\ InstallSlots(nextTid)
    /\ nextTid' = nextTid + 1
    /\ UNCHANGED <<regVars, mtu, subVars, pubVars, extVars>>

\* the callers whose current call has transid t
CallersOf(t) == {c \in Callers : calls[c].tid = t}

\* qa.get(timeout=W) raises queue.Empty
AckTimedOut(t) == ack_wait[t] = <<>>

\* qr.get(timeout=W/2) raises queue.Empty
RespTimedOut(t) == resp_wait[t] = <<>>

\* AwaitAck with a retry: on the first timeout the frame is sent once more
AwaitAck_Retry(c) ==
    LET t == calls[c].tid IN
    /\ calls[c].pc = "await_ack"
    /\ IF AckTimedOut(t)
       THEN /\ calls' = IF calls[c].nsent < 2
                        THEN [calls EXCEPT ![c].nsent = @ + 1]
                        ELSE [calls EXCEPT ![c].pc = "finally", ![c].status = "timeout"]
            /\ UNCHANGED <<ack_wait, resp_wait>>
       ELSE /\ ack_wait' = [ack_wait EXCEPT ![t] = Tail(@)]
            /\ calls' = [calls EXCEPT
                  ![c].pc = IF calls[c].type = "REQ" THEN "await_resp" ELSE "finally",
                  ![c].status = IF calls[c].type = "REQ" THEN @ ELSE "delivered"]
            /\ UNCHANGED resp_wait
    /\ UNCHANGED <<nextTid, regVars, mtu, subVars, pubVars, extVars>>

\* AwaitAck going on to wait for a RESP whatever the type of the message
AwaitAck_AlwaysResp(c) ==
    LET t == calls[c].tid IN
    /\ calls[c].pc = "await_ack"
    /\ IF AckTimedOut(t)
       THEN /\ calls' = [calls EXCEPT ![c].pc = "finally", ![c].status = "timeout"]
            /\ UNCHANGED <<ack_wait, resp_wait>>
       ELSE /\ ack_wait' = [ack_wait EXCEPT ![t] = Tail(@)]
            /\ calls' = [calls EXCEPT ![c].pc = "await_resp"]
            /\ UNCHANGED resp_wait
    /\ UNCHANGED <<nextTid, regVars, mtu, subVars, pubVars, extVars>>

\* "_ = qa.get(timeout=...)" and what follows it up to the next wait
AwaitAck(c) ==
    LET t == calls[c].tid IN
    /\ calls[c].pc = "await_ack"
    /\ IF AckTimedOut(t)
       THEN /\ calls' = [calls EXCEPT ![c].pc = "finally", ![c].status = "timeout"]
            /\ UNCHANGED <<ack_wait, resp_wait>>
       ELSE /\ ack_wait' = [ack_wait EXCEPT ![t] = Tail(@)]
            /\ calls' = [calls EXCEPT
                  ![c].pc = IF calls[c].type = "REQ" THEN "await_resp" ELSE "finally",
                  ![c].status = IF calls[c].type = "REQ" THEN @ ELSE "delivered"]
            /\ UNCHANGED resp_wait
    /\ UNCHANGED <<nextTid, regVars, mtu, subVars, pubVars, extVars>>

\* "resp_msg = qr.get(timeout=max(0.0, W / 2.0))" for a REQ
AwaitResp(c) ==
    LET t == calls[c].tid IN
    /\ calls[c].pc = "await_resp"
    /\ IF RespTimedOut(t)
       THEN /\ calls' = [calls EXCEPT ![c].pc = "finally", ![c].status = "delivered",
                                      ![c].resp = NoResp, ![c].hasResp = TRUE]
            /\ UNCHANGED <<ack_wait, resp_wait>>
       ELSE /\ resp_wait' = [resp_wait EXCEPT ![t] = Tail(@)]
            /\ calls' = [calls EXCEPT ![c].pc = "finally", ![c].status = "delivered",
                                      ![c].resp = Head(resp_wait[t]),
                                      ![c].hasResp = TRUE]
            /\ UNCHANGED ack_wait
    /\ UNCHANGED <<nextTid, regVars, mtu, subVars, pubVars, extVars>>

\* the finally block, then the return
Finally(c) ==
    /\ calls[c].pc = "finally"
    /\ PopSlots(calls[c].tid)
    /\ calls' = [calls EXCEPT ![c].pc = "done"]
    /\ UNCHANGED <<nextTid, regVars, mtu, subVars, pubVars, extVars>>

\* ------------------------------------------------------------ _on_frame
\* "q = self._ack_wait.get(e.transid)": the waiter an ACK is routed to
AckWaiter(t) == t \in DOMAIN ack_wait

\* RespWaiter for a slot that takes a RESP only once the ACK has been taken
RespWaiter_AfterAck(t) ==
    t \in DOMAIN resp_wait /\ \E c \in CallersOf(t) : calls[c].pc = "await_resp"

\* "q = self._resp_wait.get(e.transid)": the waiter a RESP is routed to
RespWaiter(t) == t \in DOMAIN resp_wait

\* the call is waiting for its ACK: it will still read qa
InAckWindow(c) == calls[c].pc = "await_ack"

\* the call will still read qr
InRespWindow(c) == calls[c].pc \in {"await_ack", "await_resp"}

\* what a call records when an ACK with its transid reaches the dispatcher
NoteAck(m) == [m EXCEPT !.ackIn = TRUE]

\* what a call records when a RESP with its transid reaches the dispatcher
NoteResp(m, p) ==
    IF m.respFirst # NoResp THEN m
    ELSE [m EXCEPT !.respFirst = p,
                   !.respWhen = IF m.pc = "await_resp" THEN "after_ack"
                                ELSE IF m.ackIn THEN "with_ack" ELSE "before_ack"]

\* the record of a frame for which "self._ack_wait.get(e.transid)" (for a
\* RESP, _resp_wait) gave None
Unmatched(type, t, table) == [type |-> type, transid |-> t, slots |-> DOMAIN table]

\* OnFrameAck putting the ACK into the queue of every waiting call
OnFrameAck_AnySlot(t) ==
    /\ ack_wait' = [u \in DOMAIN ack_wait |->
          IF Len(ack_wait[u]) < MaxQueue /\ (\E c \in CallersOf(u) : InAckWindow(c))
          THEN Append(ack_wait[u], "ack") ELSE ack_wait[u]]
    /\ calls' = [c \in Callers |->
          IF c \in CallersOf(t) /\ InAckWindow(c) THEN NoteAck(calls[c]) ELSE calls[c]]
    /\ UNCHANGED <<nextTid, resp_wait, regVars, mtu, subVars, pubVars,
                   locVars, learnop, inb, ann, wire, scan, net>>

\* Protocol._on_frame for an ACK carrying transid t: "if q: q.put(msg)".
\* The content of a queue is tracked for as long as its caller can still
\* read it; a put into a queue that is read no more changes nothing the
\* program can observe.
OnFrameAck(t) ==
    LET live == \E c \in CallersOf(t) : InAckWindow(c) IN
    /\ IF AckWaiter(t) /\ live
       THEN /\ Len(ack_wait[t]) < MaxQueue
            /\ ack_wait' = [ack_wait EXCEPT ![t] = Append(@, "ack")]
       ELSE UNCHANGED ack_wait
    /\ calls' = [c \in Callers |->
          IF c \in CallersOf(t) /\ InAckWindow(c) THEN NoteAck(calls[c]) ELSE calls[c]]
    /\ UNCHANGED <<nextTid, resp_wait, regVars, mtu, subVars, pubVars,
                   locVars, learnop, inb, ann, wire, scan, net>>

\* OnFrameResp looking the waiter up in _ack_wait instead of _resp_wait
OnFrameResp_AckTable(t, p) ==
    LET live == \E c \in CallersOf(t) : InAckWindow(c) IN
    /\ IF AckWaiter(t) /\ live
       THEN /\ Len(ack_wait[t]) < MaxQueue
            /\ ack_wait' = [ack_wait EXCEPT ![t] = Append(@, p)]
       ELSE UNCHANGED ack_wait
    /\ calls' = [c \in Callers |->
          IF c \in CallersOf(t) /\ InRespWindow(c) THEN NoteResp(calls[c], p)
          ELSE calls[c]]
    /\ UNCHANGED <<nextTid, resp_wait, regVars, mtu, subVars, pubVars,
                   locVars, learnop, inb, ann, wire, scan, net>>

\* Protocol._on_frame for a RESP carrying transid t and payload p
OnFrameResp(t, p) ==
    LET live == \E c \in CallersOf(t) : InRespWindow(c) IN
    /\ IF RespWaiter(t) /\ live
       THEN /\ Len(resp_wait[t]) < MaxQueue
            /\ resp_wait' = [resp_wait EXCEPT ![t] = Append(@, p)]
       ELSE UNCHANGED resp_wait
    /\ calls' = [c \in Callers |->
          IF c \in CallersOf(t) /\ InRespWindow(c) THEN NoteResp(calls[c], p)
          ELSE calls[c]]
    /\ UNCHANGED <<nextTid, ack_wait, regVars, mtu, subVars, pubVars,
                   locVars, learnop, inb, ann, wire, scan, net>>

\* ------------------------------------------------------------ subscriptions
\* MessageBuilder.subscribe(add, remove).to(None).build(): the SUBSCRIBE frame,
\* its lists "sorted(set(...))"
SubscribeFrame(add, remove) ==
    Frame("SUBSCRIBE", "bamboo.subscribe", NoDest, FreshTid, add, remove)

\* SendSubscribe for a builder that leaves the remove list out of the payload
SendSubscribe_AddOnly(add, remove) == <<SubscribeFrame(add, {})>>

\* Protocol._send_subscribe: the frames handed to the transport
SendSubscribe(add, remove) == <<SubscribeFrame(add, remove)>>

\* Protocol.subscribe_topics: "for t in add: if t not in self._local_subs"
Added(add) == add \ local_subs

\* Protocol.subscribe_topics: "for t in remove: if t in self._local_subs",
\* which runs after the loop over add
Removed(add, remove) == remove \cap (local_subs \cup add)

\* Changed for a call that reports a change whenever it is given a topic
Changed_AnyArgument(add, remove) == add # {} \/ remove # {}

\* Protocol.subscribe_topics: the flag "changed"
Changed(add, remove) == Added(add) # {} \/ Removed(add, remove) # {}

\* Protocol.subscribe_topics(add, remove); the lists are given as sets, the
\* code's loops and the builder's sorted(set(...)) being insensitive to order
\* and repetition.  The transport's send may raise.
SubscribeTopicsCall(add, remove, sendOk) ==
    /\ local_subs' = (local_subs \cup add) \ remove
    /\ IF Changed(add, remove)
       THEN subop' = [op |-> "subscribe_topics", add |-> add, remove |-> remove,
                      added |-> Added(add), removed |-> Removed(add, remove),
                      frames |-> SendSubscribe(add, remove),
                      status |-> IF sendOk THEN "ok" ELSE "send_error"]
       ELSE /\ sendOk
            /\ subop' = [op |-> "subscribe_topics", add |-> add, remove |-> remove,
                         added |-> {}, removed |-> {},
                         frames |-> <<>>, status |-> "ok"]
    /\ UNCHANGED <<evt_handlers, coreVars, pubVars,
                   locVars, learnop, inb, ann, wire, rx, scan>>

\* a subscribe_topics call of this node, whatever its arguments
SubscribeTopics ==
    \E add \in SUBSET Topics, remove \in SUBSET Topics, sendOk \in BOOLEAN :
        SubscribeTopicsCall(add, remove, sendOk) /\ UNCHANGED net

\* Protocol.listen(topic, handler)
ListenCall(topic, sendOk) ==
    /\ evt_handlers' = evt_handlers \cup {topic}
    /\ IF topic \notin local_subs
       THEN /\ local_subs' = local_subs \cup {topic}
            /\ subop' = [op |-> "listen", add |-> {topic}, remove |-> {},
                         added |-> {topic}, removed |-> {},
                         frames |-> SendSubscribe({topic}, {}),
                         status |-> IF sendOk THEN "ok" ELSE "send_error"]
       ELSE /\ sendOk
            /\ UNCHANGED local_subs
            /\ subop' = [op |-> "listen", add |-> {topic}, remove |-> {},
                         added |-> {}, removed |-> {},
                         frames |-> <<>>, status |-> "ok"]
    /\ UNCHANGED <<coreVars, pubVars, locVars, learnop, inb, ann, wire, rx, scan>>

\* a listen call of this node, whatever its topic
Listen ==
    \E topic \in Topics, sendOk \in BOOLEAN :
        ListenCall(topic, sendOk) /\ UNCHANGED net

NextSub ==
    \/ SubscribeTopics
    \/ Listen

SpecSub == Init /\ [][NextSub]_vars

\* ------------------------------------------------------------ publish
\* MessageBuilder.pub(topic, payload).to(destid).build()
PubFrame(topic, destid) == Frame("PUB", topic, destid, FreshTid, {}, {})

\* PublishTargets without the filter on the topic
PublishTargets_AllPeers(topic) == DOMAIN remote_subs

\* Protocol.publish: "[pid for pid, topics in self._remote_subs.items()
\* if topic in topics]"
PublishTargets(topic) == {pid \in DOMAIN remote_subs : topic \in remote_subs[pid]}

\* Protocol.publish: "return len(subs)"
PublishCount(subs) == Cardinality(subs)

\* Protocol.publish(topic, payload) up to its first send: the scan of
\* remote_subs, and the broadcast fallback when nobody is subscribed
PublishEnter ==
    /\ pub.pc \in {"none", "done"}
    /\ \E topic \in Topics, sendOk \in BOOLEAN :
        LET subs == PublishTargets(topic)
            subscribed == {q \in Peers : q \in DOMAIN remote_subs /\ topic \in remote_subs[q]}
        IN
        IF subs # {}
        THEN /\ sendOk
             /\ pub' = [pc |-> "fanout", topic |-> topic, subscribed |-> subscribed,
                        subs |-> subs, todo |-> subs,
                        frames |-> <<>>, ret |-> -1, status |-> "none"]
        ELSE pub' = [pc |-> "done", topic |-> topic, subscribed |-> subscribed,
                     subs |-> subs, todo |-> {},
                     frames |-> <<PubFrame(topic, NoDest)>>,
                     ret |-> IF sendOk THEN 0 ELSE -1,
                     status |-> IF sendOk THEN "ok" ELSE "send_error"]
    /\ UNCHANGED <<remote_subs, disp, coreVars, subVars, extVars>>

\* one turn of "for pid in subs": build a directed PUB and send it; after the
\* last one "return len(subs)".  The list is walked in the dict's order, which
\* the model leaves open.
PublishSend ==
    /\ pub.pc = "fanout"
    /\ \E pid \in pub.todo, sendOk \in BOOLEAN :
        IF BuildFails("PUB", pub.topic, pid)
        THEN /\ sendOk
             /\ pub' = [pub EXCEPT !.pc = "done", !.status = "invalid_envelope"]
        ELSE IF ~sendOk
        THEN pub' = [pub EXCEPT !.pc = "done", !.status = "send_error",
                                !.frames = Append(@, PubFrame(pub.topic, pid))]
        ELSE IF pub.todo = {pid}
        THEN pub' = [pub EXCEPT !.pc = "done", !.status = "ok", !.todo = {},
                                !.frames = Append(@, PubFrame(pub.topic, pid)),
                                !.ret = PublishCount(pub.subs)]
        ELSE pub' = [pub EXCEPT !.todo = @ \ {pid},
                                !.frames = Append(@, PubFrame(pub.topic, pid))]
    /\ UNCHANGED <<remote_subs, disp, coreVars, subVars, extVars>>

\* Protocol._fast_ack(e): the ACK frame for an envelope from src with transid
FastAck(src, transid) == Frame("ACK", "sys.ack", src, transid, {}, {})

\* DispatchSubscribe setting the peer's topics to the frame's add list
DispatchSubscribe_Replace(src, add, remove, directed, transid, sendOk) ==
        /\ remote_subs' = DictPut(remote_subs, src, add \ remove)
        /\ IF directed
           THEN disp' = [type |-> "SUBSCRIBE", frames |-> <<FastAck(src, transid)>>,
                         status |-> IF sendOk THEN "ok" ELSE "send_error"]
           ELSE /\ sendOk /\ transid = "u1"
                /\ disp' = [type |-> "SUBSCRIBE", frames |-> <<>>, status |-> "ok"]
        /\ UNCHANGED <<pub, coreVars, subVars, locVars, learnop, ann, wire, rx, scan>>

\* Protocol._on_frame for a SUBSCRIBE from src: "current = setdefault(src, set());
\* current |= add; current -= remove", then a fast ACK when it was directed
DispatchSubscribe(src, add, remove, directed, transid, sendOk) ==
        LET current == IF src \in DOMAIN remote_subs THEN remote_subs[src] ELSE {} IN
        /\ remote_subs' = DictPut(remote_subs, src, (current \cup add) \ remove)
        /\ IF directed
           THEN disp' = [type |-> "SUBSCRIBE", frames |-> <<FastAck(src, transid)>>,
                         status |-> IF sendOk THEN "ok" ELSE "send_error"]
           ELSE /\ sendOk /\ transid = "u1"
                /\ disp' = [type |-> "SUBSCRIBE", frames |-> <<>>, status |-> "ok"]
        /\ UNCHANGED <<pub, coreVars, subVars, locVars, learnop, ann, wire, rx, scan>>

\* a SUBSCRIBE delivered by the environment
OnFrameSubscribe ==
    \E src \in Peers, add \in SUBSET PeerTopics, remove \in SUBSET PeerTopics,
       directed \in BOOLEAN, transid \in InTids, sendOk \in BOOLEAN :
        /\ DispatchSubscribe(src, add, remove, directed, transid, sendOk)
        /\ UNCHANGED <<inb, net>>

\* Protocol.publish line 255 at the grain of the interpreter: the list
\* comprehension makes an iterator over self._remote_subs.items() ...
PublishScanBegin ==
    /\ scan.pc \in {"none", "done"}
    /\ \E topic \in PeerTopics :
          scan' = [pc |-> "scanning", topic |-> topic, table0 |-> remote_subs,
                   seen |-> {}, subs |-> {}, status |-> "none"]
    /\ UNCHANGED <<coreVars, subVars, pubVars, locVars, learnop, inb, ann, wire, rx, net>>

\* ... and asks it for one item after the other.  The iterator raises
\* RuntimeError("dictionary changed size during iteration") when the dict has
\* another size than when it was made; otherwise it gives the next key with
\* the set the dict holds for it now, or ends the scan.  No lock is taken.
PublishScanStep ==
    /\ scan.pc = "scanning"
    /\ IF Cardinality(DOMAIN remote_subs) # Cardinality(DOMAIN scan.table0)
       THEN scan' = [scan EXCEPT !.pc = "done", !.status = "RuntimeError"]
       ELSE IF scan.seen = DOMAIN remote_subs
       THEN scan' = [scan EXCEPT !.pc = "done", !.status = "ok"]
       ELSE \E pid \in DOMAIN remote_subs \ scan.seen :
               scan' = [scan EXCEPT !.seen = @ \cup {pid},
                          !.subs = IF scan.topic \in remote_subs[pid]
                                   THEN @ \cup {pid} ELSE @]
    /\ UNCHANGED <<coreVars, subVars, pubVars, locVars, learnop, inb, ann, wire, rx, net>>

\* a SUBSCRIBE as listen and subscribe_topics of a peer send it: broadcast,
\* hence not ACKed
BroadcastSubscribe == OnFrameSubscribe /\ disp'.frames = <<>>

\* a publisher thread scanning while the receive thread dispatches the
\* SUBSCRIBE frames that peers broadcast
NextRace ==
    \/ PublishScanBegin
    \/ PublishScanStep
    \/ BroadcastSubscribe

SpecRace == Init /\ [][NextRace]_vars

NextPub ==
    \/ PublishEnter
    \/ PublishSend
    \/ OnFrameSubscribe

SpecPub == Init /\ [][NextPub]_vars

Next ==
    \/ LearnPeerKeys
    \/ \E c \in Callers : RequestEnter(c)
    \/ \E c \in Callers : RequestPeerEnter(c)
    \/ \E c \in Callers : AwaitAck(c)
    \/ \E c \in Callers : AwaitResp(c)
    \/ \E c \in Callers : Finally(c)
    \/ \E t \in Tids : OnFrameAck(t) /\ UNCHANGED rx
    \/ \E t \in Tids, p \in Payloads : OnFrameResp(t, p) /\ UNCHANGED rx

Spec == Init /\ [][Next]_vars

\* the same dispatcher with every ACK / RESP that finds no waiter recorded
LateAck(t) ==
    /\ OnFrameAck(t)
    /\ rx' = IF AckWaiter(t) THEN rx ELSE Unmatched("ACK", t, ack_wait)

LateResp(t, p) ==
    /\ OnFrameResp(t, p)
    /\ rx' = IF RespWaiter(t) THEN rx ELSE Unmatched("RESP", t, resp_wait)

\* the RESP payload of the frames that come in at any time
LatePayloads == {"p1"}

\* requests to a peer whose keys are not known, and ACK / RESP frames with
\* any transid at any time
NextLate ==
    \/ \E c \in Callers : RequestEnter(c)
    \/ \E c \in Callers : AwaitAck(c)
    \/ \E c \in Callers : AwaitResp(c)
    \/ \E c \in Callers : Finally(c)
    \/ \E t \in Tids : LateAck(t)
    \/ \E t \in Tids, p \in LatePayloads : LateResp(t, p)

SpecLate == Init /\ [][NextLate]_vars

\* ------------------------------------------------- local registry, handlers
\* the strings of the model in the order Python's sorted() gives them
StrOrder == <<"", "a", "b", "bin", "json", "x", "y">>

\* sorted(S)
sorted(S) == SelectSeq(StrOrder, LAMBDA str : str \in S)

\* KeyRegistry.advertise
advertise ==
    [keys |-> sorted(local), caps |-> sorted(local_caps), rev |-> rev, ts |-> clock]

\* Protocol.on(key, handler): "self.keys.local.add(key);
\* self._req_handlers[key] = handler"
On(key, handler) ==
    /\ local' = local \cup {key}
    /\ req_handlers' = DictPut(req_handlers, key, handler)
    /\ locop' = [op |-> "on", args |-> <<key>>, fresh |-> key \notin local, rev0 |-> rev]
    /\ UNCHANGED <<local_caps, rev>>

\* KeyRegistry.add(*keys): "self.local.update(keys); self._rev += 1"
KeysAdd(keys) ==
    /\ rev < MaxRev
    /\ local' = local \cup ArgSet(keys)
    /\ rev' = rev + 1
    /\ locop' = [op |-> "add", args |-> keys, fresh |-> FALSE, rev0 |-> rev]
    /\ UNCHANGED <<local_caps, req_handlers>>

\* KeyRegistry.remove(*keys): "for k in keys: self.local.discard(k);
\* self._rev += 1", the increment being part of the loop body
KeysRemove(keys) ==
    /\ rev + Len(keys) <= MaxRev
    /\ local' = local \ ArgSet(keys)
    /\ rev' = rev + Len(keys)
    /\ locop' = [op |-> "remove", args |-> keys, fresh |-> FALSE, rev0 |-> rev]
    /\ UNCHANGED <<local_caps, req_handlers>>

\* KeyRegistry.set_caps(*caps): "self.local_caps = set(caps) if caps else
\* set(); self._rev += 1"
SetCaps(caps) ==
    /\ rev < MaxRev
    /\ local_caps' = IF caps # <<>> THEN ArgSet(caps) ELSE {}
    /\ rev' = rev + 1
    /\ locop' = [op |-> "set_caps", args |-> caps, fresh |-> FALSE, rev0 |-> rev]
    /\ UNCHANGED <<local, req_handlers>>

NextLocal ==
    \/ \E key \in Keys, handler \in Handlers :
          On(key, handler) /\ UNCHANGED <<coreVars, subVars, pubVars, learnop, inb, ann, wire, rx, scan, net>>
    \/ \E keys \in ArgLists(Keys) :
          KeysAdd(keys) /\ UNCHANGED <<coreVars, subVars, pubVars, learnop, inb, ann, wire, rx, scan, net>>
    \/ \E keys \in ArgLists(Keys) :
          KeysRemove(keys) /\ UNCHANGED <<coreVars, subVars, pubVars, learnop, inb, ann, wire, rx, scan, net>>
    \/ \E caps \in ArgLists(Caps) :
          SetCaps(caps) /\ UNCHANGED <<coreVars, subVars, pubVars, learnop, inb, ann, wire, rx, scan, net>>

SpecLocal == Init /\ [][NextLocal]_vars

\* ------------------------------------------------------- learn and HELLO
\* whether the module protocol.py binds the name "time" that its HELLO arm
\* and announce_hello evaluate: it imports datetime, queue and threading only
TimeImported == FALSE

\* the operation record of a learn call or a HELLO
LearnOp(op, peer_id, keys, caps, r, ts, status) ==
    [op |-> op, peer |-> peer_id, keys |-> keys, caps |-> caps, rev |-> r, ts |-> ts,
     remote0 |-> remote, caps0 |-> remote_caps, rev0 |-> remote_rev, now |-> clock,
     status |-> status, subs |-> {}, subs0 |-> EmptyDict]

\* the operation record of a HELLO
HelloOp(src, keys, caps, r, ts, subs, status) ==
    [LearnOp("hello", src, keys, caps, r, ts, status)
        EXCEPT !.subs = subs, !.subs0 = remote_subs]

\* a call keys.learn(peer_id, keys, caps=caps, rev=rev, ts=ts)
LearnCall ==
    \E peer_id \in LearnPeers, keys \in KeySets, caps \in CapSets, r \in PeerRevs,
       ts \in PeerTs :
        /\ learn(peer_id, keys, caps, r, ts)
        /\ learnop' = LearnOp("learn", peer_id, keys, caps, r, ts, "ok")
        /\ UNCHANGED <<reqVars, mtu, subVars, pubVars, locVars, inb, ann, wire, rx, scan, net>>

\* Protocol._on_frame for a HELLO from src.  The arguments of keys.learn are
\* evaluated first, among them p.get("ts", time.time()): with "time" unbound
\* this raises NameError before learn is called.  Otherwise learn runs and
\* "subs = set(p.get("subs", [])); if subs: self._remote_subs[src] = subs".
OnFrameHello ==
    \E src \in LearnPeers, keys \in KeySets, caps \in CapSets \ {NoCaps},
       r \in PeerRevs \ {NoRev}, ts \in PeerTs, subs \in SubSets :
        IF TimeImported
        THEN /\ learn(src, keys, caps, r, ts)
             /\ remote_subs' = IF subs # {} THEN DictPut(remote_subs, src, subs)
                                ELSE remote_subs
             /\ learnop' = HelloOp(src, keys, caps, r, ts, subs, "ok")
             /\ disp' = [type |-> "HELLO", frames |-> <<>>, status |-> "ok"]
             /\ UNCHANGED <<reqVars, mtu, subVars, pub, locVars, inb, ann, wire, rx, scan, net>>
        ELSE /\ learnop' = HelloOp(src, keys, caps, r, ts, subs, "raised")
             /\ disp' = [type |-> "HELLO", frames |-> <<>>, status |-> "raised"]
             /\ UNCHANGED <<coreVars, subVars, remote_subs, pub, locVars, inb, ann, wire, rx, scan, net>>

\* time passes
Tick ==
    /\ clock < MaxClock
    /\ clock' = clock + 1
    /\ UNCHANGED <<reqVars, remote, remote_caps, remote_rev, last_seen, mtu,
                   subVars, pubVars, extVars>>

NextLearn ==
    \/ LearnCall
    \/ OnFrameHello
    \/ Tick

SpecLearn == Init /\ [][NextLearn]_vars

\* ------------------------------------------------------- KeyRegistry.prune
\* the values of stale_after_s tried
StaleAfter == {-1, 0, 1}

\* "cutoff = time.time() - max(0.0, stale_after_s)"
Cutoff(stale_after_s) == clock - (IF stale_after_s > 0 THEN stale_after_s ELSE 0)

\* "for pid, ts in list(self.last_seen.items()): if ts and ts < cutoff"
PruneRemoved(stale_after_s) ==
    {pid \in DOMAIN last_seen :
        last_seen[pid] # 0 /\ last_seen[pid] < Cutoff(stale_after_s)}

\* dict d after d.pop(pid, None) for every pid of S
PopAll(d, S) == [x \in DOMAIN d \ S |-> d[x]]

\* KeyRegistry.prune(stale_after_s)
Prune ==
    \E stale_after_s \in StaleAfter :
        LET removed == PruneRemoved(stale_after_s) IN
        /\ last_seen' = PopAll(last_seen, removed)
        /\ remote' = PopAll(remote, removed)
        /\ remote_caps' = PopAll(remote_caps, removed)
        /\ remote_rev' = PopAll(remote_rev, removed)
        /\ learnop' = [LearnOp("prune", NoDest, {}, NoCaps, NoRev, NoTs, "ok")
                         EXCEPT !.keys = removed]
        /\ UNCHANGED <<reqVars, clock, mtu, subVars, pubVars, locVars, inb, ann, wire,
                       rx, scan, net>>

\* the registry under learn calls, learn_peer_keys, HELLO frames and prune
NextReg ==
    \/ LearnCall
    \/ LearnPeerKeys
    \/ OnFrameHello
    \/ Prune
    \/ Tick

SpecReg == Init /\ [][NextReg]_vars

\* ------------------------------------------- inbound REQ / CONFIG / PUB
\* the gate looking the key up in the handler table instead of keys.local
ReceiverGate_HandlerTable(key) == key = NoKey \/ key \notin DOMAIN req_handlers

\* the receiver-side gate of a direct REQ / CONFIG: "if not e.key or e.key
\* not in self.keys.local: return"
ReceiverGate(key) == key = NoKey \/ key \notin local

\* "self._req_handlers.get(e.key or "")" and "if handler:"
HasHandler(key) == key \in DOMAIN req_handlers

\* RESP payloads made by the dispatcher: the handler's own dict (it has "ok"
\* or "error"), {"ok": True, "data": result}, {"ok": False, "error": str(ex)}
OwnPayload == "result"
DataPayload == "{ok:true,data:result}"
ErrorPayload == "{ok:false,error:message}"

\* resp_payload that wraps whatever came of the handler as data
resp_payload_AlwaysData(outcome) ==
    CASE outcome = "returns_ok" -> OwnPayload
      [] outcome = "returns_data" -> DataPayload
      [] outcome = "raises" -> DataPayload

\* resp_payload for what the handler did
resp_payload(outcome) ==
    CASE outcome = "returns_ok" -> OwnPayload
      [] outcome = "returns_data" -> DataPayload
      [] outcome = "raises" -> ErrorPayload

\* the RESP of the REQ arm: type RESP, transid and key of the REQ, destid the
\* REQ's sourceid
RespFrame(key, src, transid, payload) ==
    [type |-> "RESP", key |-> key, destid |-> src, transid |-> transid,
     payload |-> payload]

\* the envelope of a dispatched frame
Inb(type, key, src, directed, transid, noresp, called, outcome) ==
    [type |-> type, key |-> key, src |-> src, directed |-> directed,
     transid |-> transid, noresp |-> noresp, called |-> called, outcome |-> outcome,
     events |-> <<>>, add |-> {}, remove |-> {}, subs0 |-> EmptyDict]

\* ReqEvents for a dispatcher that answers first and acknowledges last
ReqEvents_AckLast(key, directed, noresp, ackOk) ==
    IF directed /\ ReceiverGate(key) THEN <<>>
    ELSE (IF HasHandler(key) THEN (IF noresp THEN <<"handler">> ELSE <<"handler", "resp">>)
          ELSE <<>>)
         \o (IF directed THEN <<"ack">> ELSE <<>>)

\* ReqEvents for a dispatcher that leaves the handler out when the payload
\* asks for no RESP
ReqEvents_SkipOnNoresp(key, directed, noresp, ackOk) ==
    IF directed /\ ReceiverGate(key) THEN <<>>
    ELSE (IF directed THEN <<"ack">> ELSE <<>>)
         \o (IF directed /\ ~ackOk THEN <<>>
             ELSE IF ~HasHandler(key) THEN <<>>
             ELSE IF noresp THEN <<>>
             ELSE <<"handler", "resp">>)

\* the steps of the REQ path of _on_frame in program order: line 162
\* "self._fast_ack(e)" of a direct REQ that passed the gate, line 169
\* "result = handler(msg)", line 192 "self.send(resp)"; a send that raises
\* ends the dispatch
ReqEvents(key, directed, noresp, ackOk) ==
    IF directed /\ ReceiverGate(key) THEN <<>>
    ELSE (IF directed THEN <<"ack">> ELSE <<>>)
         \o (IF directed /\ ~ackOk THEN <<>>
             ELSE IF ~HasHandler(key) THEN <<>>
             ELSE IF noresp THEN <<"handler">>
             ELSE <<"handler", "resp">>)

\* the steps of the CONFIG path in program order: line 162, then line 198
\* "_ = handler(msg)"
ConfigEvents(key, directed, ackOk) ==
    IF ~directed \/ ReceiverGate(key) THEN <<>>
    ELSE IF ~ackOk THEN <<"ack">>
    ELSE IF HasHandler(key) THEN <<"ack", "handler">>
    ELSE <<"ack">>

\* Protocol._on_frame for a REQ: the gate and fast ACK when it is direct, then
\* the handler and, unless noresp, the RESP.  ackOk and respOk say whether
\* the transport takes the frame or raises.
DispatchReq(key, src, transid, directed, noresp, ackOk, respOk) ==
        LET acked == IF directed THEN <<FastAck(src, transid)>> ELSE <<>>
            outcome == IF HasHandler(key) THEN req_handlers[key] ELSE "none"
            resp == RespFrame(key, src, transid, resp_payload(outcome))
            events == ReqEvents(key, directed, noresp, ackOk)
        IN
        /\ IF directed /\ ReceiverGate(key)
           THEN /\ ackOk /\ respOk
                /\ inb' = [Inb("REQ", key, src, directed, transid, noresp, FALSE, "none")
                           EXCEPT !.events = events]
                /\ disp' = [type |-> "REQ", frames |-> <<>>, status |-> "ok"]
           ELSE IF directed /\ ~ackOk
           THEN /\ respOk
                /\ inb' = [Inb("REQ", key, src, directed, transid, noresp, FALSE, "none")
                           EXCEPT !.events = events]
                /\ disp' = [type |-> "REQ", frames |-> acked, status |-> "send_error"]
           ELSE IF ~HasHandler(key)
           THEN /\ (directed \/ ackOk) /\ respOk
                /\ inb' = [Inb("REQ", key, src, directed, transid, noresp, FALSE, "none")
                           EXCEPT !.events = events]
                /\ disp' = [type |-> "REQ", frames |-> acked, status |-> "ok"]
           ELSE IF noresp
           THEN /\ (directed \/ ackOk) /\ respOk
                /\ inb' = [Inb("REQ", key, src, directed, transid, noresp, TRUE, outcome)
                           EXCEPT !.events = events]
                /\ disp' = [type |-> "REQ", frames |-> acked, status |-> "ok"]
           ELSE /\ (directed \/ ackOk)
                /\ inb' = [Inb("REQ", key, src, directed, transid, noresp, TRUE, outcome)
                           EXCEPT !.events = events]
                /\ disp' = [type |-> "REQ", frames |-> Append(acked, resp),
                             status |-> IF respOk THEN "ok" ELSE "send_error"]
        /\ UNCHANGED <<coreVars, subVars, remote_subs, pub, locVars, learnop, ann, wire, rx, scan, net>>

\* Protocol._on_frame for a CONFIG: a direct one passes the gate, is ACKed and
\* handed to the handler, whose exceptions are swallowed; a broadcast one
\* falls through every arm
DispatchConfig(key, src, transid, directed, ackOk) ==
        LET noresp == FALSE
            outcome == IF HasHandler(key) THEN req_handlers[key] ELSE "none"
            events == ConfigEvents(key, directed, ackOk) IN
        /\ IF ~directed
           THEN /\ ackOk
                /\ inb' = [Inb("CONFIG", key, src, directed, transid, noresp, FALSE, "none")
                           EXCEPT !.events = events]
                /\ disp' = [type |-> "CONFIG", frames |-> <<>>, status |-> "ok"]
           ELSE IF ReceiverGate(key)
           THEN /\ ackOk
                /\ inb' = [Inb("CONFIG", key, src, directed, transid, noresp, FALSE, "none")
                           EXCEPT !.events = events]
                /\ disp' = [type |-> "CONFIG", frames |-> <<>>, status |-> "ok"]
           ELSE IF ~ackOk
           THEN /\ inb' = [Inb("CONFIG", key, src, directed, transid, noresp, FALSE, "none")
                           EXCEPT !.events = events]
                /\ disp' = [type |-> "CONFIG", frames |-> <<FastAck(src, transid)>>,
                             status |-> "send_error"]
           ELSE /\ inb' = [Inb("CONFIG", key, src, directed, transid, noresp,
                               HasHandler(key), outcome)
                           EXCEPT !.events = events]
                /\ disp' = [type |-> "CONFIG", frames |-> <<FastAck(src, transid)>>,
                             status |-> "ok"]
        /\ UNCHANGED <<coreVars, subVars, remote_subs, pub, locVars, learnop, ann, wire, rx, scan, net>>

\* a REQ and a CONFIG delivered by the environment
OnFrameReq ==
    \E key \in Keys \cup {NoKey}, from \in Senders, directed \in BOOLEAN,
       noresp \in BOOLEAN, ackOk \in BOOLEAN, respOk \in BOOLEAN :
        DispatchReq(key, from[1], from[2], directed, noresp, ackOk, respOk)

OnFrameConfig ==
    \E key \in Keys \cup {NoKey}, from \in Senders, directed \in BOOLEAN,
       ackOk \in BOOLEAN :
        DispatchConfig(key, from[1], from[2], directed, ackOk)

\* why unpack_frame raises on a frame: the header is not UTF-8, is not JSON,
\* lacks one of version / type / transid / time / sourceid, or names a type
\* that MsgType does not have
DecodeErrors == {"UnicodeDecodeError", "JSONDecodeError", "KeyError", "ValueError"}

\* Protocol._on_frame for such a frame: "msg = unpack_frame(frame)" stands
\* outside every try block
OnFrameUndecodable ==
    \E err \in DecodeErrors, src \in LearnPeers :
        /\ inb' = Inb("undecodable", NoKey, src, FALSE, "none", FALSE, FALSE, err)
        /\ disp' = [type |-> "undecodable", frames |-> <<>>, status |-> "raised"]
        /\ UNCHANGED <<coreVars, subVars, remote_subs, pub, locVars, learnop, ann, wire, rx, scan, net>>

\* the node serves one key, ServedKey, registered with on and withdrawn with
\* keys.remove; frames come in for every key
NextIn ==
    \/ \E handler \in Handlers :
          On(ServedKey, handler) /\ UNCHANGED <<coreVars, subVars, pubVars, learnop, inb, ann, wire, rx, scan, net>>
    \/ KeysRemove(<<ServedKey>>) /\ UNCHANGED <<coreVars, subVars, pubVars, learnop, inb, ann, wire, rx, scan, net>>
    \/ OnFrameReq
    \/ OnFrameConfig
    \/ OnFrameUndecodable

SpecIn == Init /\ [][NextIn]_vars

\* what an event handler does when it is called
EvtOutcomes == {"returns", "raises"}

\* PubHandler for a dispatcher that gates PUB on keys.local as it gates REQ
PubHandler_Gated(key) == key \in evt_handlers /\ key \in local

\* "h = self._evt_handlers.get(e.key or "")" and "if h:"
PubHandler(key) == key \in evt_handlers

\* Protocol._on_frame for a PUB: it passes the gate of line 159 (REQ and
\* CONFIG only) and the REQ and CONFIG arms, and reaches line 203: the event
\* handler, if any, is called and its exceptions are swallowed
DispatchPub(key, src, transid, directed, outcome) ==
    LET called == PubHandler(key) IN
    /\ inb' = [Inb("PUB", key, src, directed, transid, FALSE, called,
                    IF called THEN outcome ELSE "none")
                 EXCEPT !.events = IF called THEN <<"handler">> ELSE <<>>]
    /\ disp' = [type |-> "PUB", frames |-> <<>>, status |-> "ok"]
    /\ UNCHANGED <<coreVars, subVars, remote_subs, pub, locVars, learnop, ann, wire,
                   rx, scan, net>>

\* a PUB delivered by the environment
OnFramePub ==
    \E key \in Topics, from \in Senders, directed \in BOOLEAN, outcome \in EvtOutcomes :
        /\ outcome = "returns" \/ PubHandler(key)
        /\ DispatchPub(key, from[1], from[2], directed, outcome)

\* the key that is both served and listened to
SharedKey == "a"

\* a node that listens to topics and serves one of them as a key, and the
\* PUB frames that come in
NextEvt ==
    \/ Listen
    \/ \E handler \in Handlers :
          On(SharedKey, handler) /\ UNCHANGED <<coreVars, subVars, pubVars, learnop, inb, ann, wire, rx, scan, net>>
    \/ OnFramePub

SpecEvt == Init /\ [][NextEvt]_vars

\* a SUBSCRIBE delivered by the environment, recorded with the table before it
SubscribeIn ==
    \E src \in Peers, add \in SUBSET PeerTopics, remove \in SUBSET PeerTopics,
       directed \in BOOLEAN, transid \in InTids, sendOk \in BOOLEAN :
        /\ DispatchSubscribe(src, add, remove, directed, transid, sendOk)
        /\ inb' = [Inb("SUBSCRIBE", NoKey, src, directed, transid, FALSE, FALSE, "none")
                     EXCEPT !.add = add, !.remove = remove, !.subs0 = remote_subs]
        /\ UNCHANGED net

NextSubIn ==
    \/ SubscribeIn

SpecSubIn == Init /\ [][NextSubIn]_vars

\* ------------------------------------------- a requester and its receiver
\* Two runtimes: the requester, whose calls, slots and remote registry are
\* calls, ack_wait, resp_wait and remote, and the receiver "B", whose served
\* keys and handlers are local and req_handlers.  The transport carries each
\* frame the requester sent to the receiver's dispatcher, and the frames the
\* receiver sent in answer to the requester's dispatcher; it may be slow, so
\* the requester may give up waiting first.
SelfId == "A"

\* the frames of the receiver's last dispatch that its transport took
Transmitted ==
    IF disp.status = "send_error" THEN SubSeq(disp.frames, 1, Len(disp.frames) - 1)
    ELSE disp.frames

\* the frame of call c reaches the receiver's _on_frame, once
DeliverReq(c) ==
    LET m == calls[c] IN
    /\ m.pc \notin {"none"}
    /\ m.nsent >= 1 /\ m.status # "send_error"
    /\ IF inb.type = "none" THEN TRUE ELSE inb.transid # m.tid
    /\ \E noresp \in BOOLEAN, ackOk \in BOOLEAN, respOk \in BOOLEAN :
         IF m.type = "REQ"
         THEN DispatchReq(m.key, SelfId, m.tid, m.dest # NoDest, noresp, ackOk, respOk)
         ELSE /\ ~noresp /\ respOk
              /\ DispatchConfig(m.key, SelfId, m.tid, m.dest # NoDest, ackOk)

\* an ACK that the receiver sent reaches the requester's _on_frame
DeliverAck ==
    \E i \in 1..Len(Transmitted) :
        /\ Transmitted[i].type = "ACK"
        /\ OnFrameAck(Transmitted[i].transid)
        /\ UNCHANGED rx

\* a RESP that the receiver sent reaches the requester's _on_frame
DeliverResp ==
    \E i \in 1..Len(Transmitted) :
        /\ Transmitted[i].type = "RESP"
        /\ OnFrameResp(Transmitted[i].transid, Transmitted[i].payload)
        /\ UNCHANGED rx

NextPair ==
    \/ LearnPeerKeys
    \/ \E handler \in Handlers :
          On(ServedKey, handler) /\ UNCHANGED <<coreVars, subVars, pubVars, learnop, inb, ann, wire, rx, scan, net>>
    \/ \E c \in Callers : RequestEnter(c)
    \/ \E c \in Callers : AwaitAck(c)
    \/ \E c \in Callers : AwaitResp(c)
    \/ \E c \in Callers : Finally(c)
    \/ \E c \in Callers : DeliverReq(c)
    \/ DeliverAck
    \/ DeliverResp

SpecPair == Init /\ [][NextPair]_vars

\* ------------------------------------------------------------- Discovery
DISCOVERY_TOPIC == "bamboo.discovery"
KEYS_TOPIC == "bamboo.keys"

\* the registry as a frame's builder sees it
Registry == [caps |-> local_caps, keys |-> local, subs |-> local_subs, rev |-> rev]

\* Discovery._hello_msg: a broadcast REQ on DISCOVERY_TOPIC with payload
\* {peer, caps, v, ts, noresp}
hello_msg ==
    [type |-> "REQ", key |-> DISCOVERY_TOPIC, destid |-> NoDest,
     payload |-> [peer |-> SelfId, caps |-> sorted(local_caps), ts |-> clock,
                  noresp |-> TRUE]]

\* Discovery._keys_msg: a broadcast REQ on KEYS_TOPIC with payload
\* advertise() plus noresp
keys_msg ==
    [type |-> "REQ", key |-> KEYS_TOPIC, destid |-> NoDest,
     payload |-> [keys |-> advertise.keys, caps |-> advertise.caps,
                  rev |-> advertise.rev, ts |-> advertise.ts, noresp |-> TRUE]]

\* MessageBuilder.hello(caps=, keys=, subs=, rev=, ts=).to(None).build()
HelloFrame ==
    [type |-> "HELLO", key |-> "bamboo.hello", destid |-> NoDest,
     payload |-> [caps |-> sorted(local_caps), keys |-> advertise.keys,
                  subs |-> sorted(local_subs), rev |-> advertise.rev,
                  ts |-> advertise.ts, noresp |-> TRUE]]

\* a counter that stops at MaxCount
Count(n) == IF n < MaxCount THEN n + 1 ELSE n

\* self._thread.is_alive()
ThreadAlive ==
    ann.loops # <<>> /\ ann.loops[Len(ann.loops)].pc # "dead"

\* a thread that has just been started on _loop
NewLoop == [pc |-> "announce_hello", frames |-> <<>>]

\* Discovery.start: "self._stop = False; if not self._thread.is_alive():
\* self._thread = threading.Thread(target=self._loop); self._thread.start()"
Start ==
    /\ ThreadAlive \/ Len(ann.loops) < MaxThreads
    /\ ann' = [ann EXCEPT !.stop = FALSE, !.wakes = 0, !.sent = 0,
                          !.loops = IF ThreadAlive THEN @ ELSE Append(@, NewLoop)]
    /\ UNCHANGED <<coreVars, subVars, pubVars, locVars, learnop, inb, wire, rx, scan, net>>

\* Discovery.stop: "self._stop = True"
Stop ==
    /\ ann' = [ann EXCEPT !.stop = TRUE,
                          !.wakes = IF ann.stop THEN @ ELSE 0,
                          !.sent = IF ann.stop THEN @ ELSE 0]
    /\ UNCHANGED <<coreVars, subVars, pubVars, locVars, learnop, inb, wire, rx, scan, net>>

\* "while not self._stop": the loop is left
LoopExits_Never == FALSE

LoopExits == ann.stop

\* loop thread i hands frame to self._send, which returns or raises; a
\* raise ends the thread
LoopSend(i, frame, next, sendOk) ==
    ann' = [ann EXCEPT
        !.loops[i].frames = Append(@, [frame |-> frame, reg |-> Registry]),
        !.loops[i].pc = IF sendOk THEN next ELSE "dead",
        !.sent = IF ann.stop THEN Count(@) ELSE @]

\* one step of loop thread i in Discovery._loop: announce_now (hello, keys),
\* then "while not self._stop: time.sleep(self._every); send hello; send keys"
Loop(i) ==
    /\ i \in 1..Len(ann.loops)
    /\ LET pc == ann.loops[i].pc IN
       \E sendOk \in BOOLEAN :
        CASE pc = "announce_hello" -> LoopSend(i, hello_msg, "announce_keys", sendOk)
          [] pc = "announce_keys" -> LoopSend(i, keys_msg, "check", sendOk)
          [] pc = "check" ->
                /\ sendOk
                /\ ann' = [ann EXCEPT !.loops[i].pc = IF LoopExits THEN "dead" ELSE "sleep"]
          [] pc = "sleep" ->
                /\ sendOk
                /\ ann' = [ann EXCEPT !.loops[i].pc = "hello", !.loops[i].frames = <<>>,
                                      !.wakes = IF ann.stop THEN Count(@) ELSE @]
          [] pc = "hello" -> LoopSend(i, hello_msg, "keys", sendOk)
          [] pc = "keys" -> LoopSend(i, keys_msg, "check", sendOk)
          [] pc = "dead" -> FALSE
    /\ UNCHANGED <<coreVars, subVars, pubVars, locVars, learnop, inb, wire, rx, scan, net>>

\* the loop threads take their steps
LoopStep == \E i \in 1..MaxThreads : Loop(i)

\* Protocol.announce_hello: advertise(), then the builder's hello(...) whose
\* argument ts=payload.get("ts", time.time()) raises NameError with "time"
\* unbound; otherwise self.send(msg)
AnnounceHello ==
    /\ ann' = [ann EXCEPT !.hello =
                  IF TimeImported THEN [status |-> "sent", frames |-> <<HelloFrame>>]
                  ELSE [status |-> "raised", frames |-> <<>>]]
    /\ UNCHANGED <<coreVars, subVars, pubVars, locVars, learnop, inb, wire, rx, scan, net>>

NextAnn ==
    \/ Start
    \/ Stop
    \/ LoopStep
    \/ AnnounceHello
    \/ KeysAdd(<<ServedKey>>) /\ UNCHANGED <<coreVars, subVars, pubVars, learnop, inb, ann, wire, rx, scan, net>>

SpecAnn == Init /\ [][NextAnn]_vars

\* a started thread runs: time.sleep returns, and send returns or raises
SpecAnnFair == SpecAnn /\ WF_vars(LoopStep)

\* ------------------------------------------------------------------ wire
\* Bytes and characters are symbols: "LF" is 0x0A, "BS" the backslash, "QT"
\* the double quote; "null", "," "{" and "}" stand for the JSON text of the
\* same name, and a type name for the characters that spell it.
StrChars == {"a", "n", "LF", "BS"}
BinBytes == {"LF", "b"}

\* None, apart from every string and every bytes value
None == <<"None">>

\* strings and bytes values of the framed messages
Strings == UNION {[1..n -> StrChars] : n \in 0..MaxStr}
Blobs == UNION {[1..n -> BinBytes] : n \in 0..MaxBin}

\* MsgType: a member has a value, str(member) is its value (StrEnum), and
\* MsgType(value) is the member with that value or raises ValueError
MsgTypeValues == {"REQ", "RESP", "ACK", "CONFIG", "HELLO", "PUB", "SUBSCRIBE"}
Member(value) == [value |-> value]
MsgTypeStr(member) == member.value

\* the well-formed Messages that are framed: type, key and destid vary, the
\* other envelope fields are fixed
Messages ==
    [env : [type : {Member("REQ"), Member("PUB")}, key : Strings \cup {None},
            destid : {None, <<"a">>}],
     binary : Blobs \cup {None}]

\* _SEP = b"\n\n"
SEP == <<"LF", "LF">>

\* what json.dumps writes for the characters of a string
RECURSIVE Escape(_)
Escape(str) ==
    IF str = <<>> THEN <<>>
    ELSE LET c == Head(str) IN
         (CASE c = "LF" -> <<"BS", "n">>
            [] c = "BS" -> <<"BS", "BS">>
            [] c = "QT" -> <<"BS", "QT">>
            [] OTHER -> <<c>>) \o Escape(Tail(str))

\* json.dumps of a value that is None or a string
JsonValue(v) == IF v = None THEN <<"null">> ELSE <<"QT">> \o Escape(v) \o <<"QT">>

\* json.dumps(env_dict, separators=(",", ":")): the object with its fields in
\* order
JsonDumps(env) ==
    <<"{">> \o <<"QT", MsgTypeStr(env.type), "QT">> \o <<",">> \o JsonValue(env.key)
          \o <<",">> \o JsonValue(env.destid) \o <<"}">>

\* wire.pack_frame
pack_frame(msg) ==
    LET header == JsonDumps(msg.env) IN
    IF msg.binary = None THEN header ELSE header \o SEP \o msg.binary

\* the positions at which frame has the separator
SepAt(frame) ==
    {i \in 1..(Len(frame) - 1) : frame[i] = "LF" /\ frame[i + 1] = "LF"}

\* the position at which frame.split(_SEP, 1) splits
SplitAt_Last(frame) == CHOOSE i \in SepAt(frame) : \A j \in SepAt(frame) : j <= i

SplitAt(frame) == CHOOSE i \in SepAt(frame) : \A j \in SepAt(frame) : i <= j

\* a failed parse
Bad == [ok |-> FALSE, val |-> <<>>, next |-> 0]

\* json.loads on the characters of a string, from position i just after the
\* opening quote: the string's value and the position after its closing
\* quote.  A raw control character, an unknown escape and a missing closing
\* quote are errors.
RECURSIVE ScanString(_, _)
ScanString(text, i) ==
    IF i > Len(text) THEN Bad
    ELSE IF text[i] = "QT" THEN [ok |-> TRUE, val |-> <<>>, next |-> i + 1]
    ELSE IF text[i] = "LF" THEN Bad
    ELSE IF text[i] = "BS"
    THEN IF i + 1 > Len(text) THEN Bad
         ELSE LET e == text[i + 1]
                  c == CASE e = "n" -> "LF" [] e = "BS" -> "BS" [] e = "QT" -> "QT"
                         [] OTHER -> "?"
                  rest == ScanString(text, i + 2)
              IN IF c = "?" \/ ~rest.ok THEN Bad ELSE [rest EXCEPT !.val = <<c>> \o @]
    ELSE LET rest == ScanString(text, i + 1)
         IN IF ~rest.ok THEN Bad ELSE [rest EXCEPT !.val = <<text[i]>> \o @]

\* json.loads on a value that is null or a string, from position i
ScanValue(text, i) ==
    IF i > Len(text) THEN Bad
    ELSE IF text[i] = "null" THEN [ok |-> TRUE, val |-> None, next |-> i + 1]
    ELSE IF text[i] = "QT" THEN ScanString(text, i + 1)
    ELSE Bad

\* text has symbol c at position i
At(text, i, c) == i <= Len(text) /\ text[i] = c

\* what unpack_frame gives when json.loads, a missing field or MsgType(...)
\* raises
DecodeFailure == [error |-> "raised"]

\* json.loads(header_bytes) and the Envelope made of it
JsonLoads(text) ==
    IF ~(At(text, 1, "{") /\ At(text, 2, "QT") /\ At(text, 4, "QT") /\ At(text, 5, ","))
    THEN DecodeFailure
    ELSE IF text[3] \notin MsgTypeValues THEN DecodeFailure
    ELSE LET k == ScanValue(text, 6) IN
         IF ~k.ok \/ ~At(text, k.next, ",") THEN DecodeFailure
         ELSE LET d == ScanValue(text, k.next + 1) IN
              IF ~d.ok \/ ~At(text, d.next, "}") \/ d.next # Len(text) THEN DecodeFailure
              ELSE [type |-> Member(text[3]), key |-> k.val, destid |-> d.val]

\* wire.unpack_frame
unpack_frame(frame) ==
    LET split == SepAt(frame) # {}
        header_bytes == IF split THEN SubSeq(frame, 1, SplitAt(frame) - 1) ELSE frame
        binary == IF split THEN SubSeq(frame, SplitAt(frame) + 2, Len(frame)) ELSE None
        env == JsonLoads(header_bytes)
    IN IF env = DecodeFailure THEN DecodeFailure ELSE [env |-> env, binary |-> binary]

\* pack_frame(m) for the message drawn at the start
PackFrame ==
    /\ wire.pc = "message"
    /\ wire' = [wire EXCEPT !.pc = "packed", !.frame = pack_frame(wire.m)]
    /\ UNCHANGED <<coreVars, subVars, pubVars, locVars, learnop, inb, ann, rx, scan, net>>

\* unpack_frame on the frame
UnpackFrame ==
    /\ wire.pc = "packed"
    /\ wire' = [wire EXCEPT !.pc = "unpacked", !.out = unpack_frame(wire.frame)]
    /\ UNCHANGED <<coreVars, subVars, pubVars, locVars, learnop, inb, ann, rx, scan, net>>

InitWire ==
    /\ InitRuntime
    /\ wire \in {[NoWire EXCEPT !.pc = "message", !.m = m] : m \in Messages}

NextWire ==
    \/ PackFrame
    \/ UnpackFrame

SpecWire == InitWire /\ [][NextWire]_vars

\* ------------------------------------------------- header fields
\* the fields of the JSON header that unpack_frame reads with env[...], which
\* raises KeyError when the field is missing, and with env.get(...)
RequiredFields == {"version", "type", "transid", "time", "sourceid"}
OptionalFields == {"key", "payload", "destid"}

\* a header field that is none of the eight
UnknownField == "trace"

\* the transid of the frames whose header has the unknown field
ExtraTid == "u3"

\* the header of a direct REQ for key from src, as a dict
ReqHeader(key, src, transid, noresp) ==
    [f \in RequiredFields \cup OptionalFields |->
        CASE f = "version" -> "1"
          [] f = "type" -> "REQ"
          [] f = "transid" -> transid
          [] f = "time" -> "now"
          [] f = "sourceid" -> src
          [] f = "key" -> key
          [] f = "payload" -> IF noresp THEN "{noresp:true}" ELSE "{}"
          [] f = "destid" -> SelfId]

\* header h with field f added / left out
WithField(h, f) == [g \in DOMAIN h \cup {f} |-> IF g = f THEN "?" ELSE h[g]]
WithoutField(h, f) == [g \in DOMAIN h \ {f} |-> h[g]]

\* unpack_frame's Envelope(...) from the header dict: env["version"],
\* MsgType(env["type"]), env["transid"], env.get("key"), env.get("payload",
\* {}), env["time"], env.get("destid"), env["sourceid"]; every other field of
\* the dict is left unread
UnpackHeader(h) ==
    IF ~(RequiredFields \subseteq DOMAIN h) THEN DecodeFailure
    ELSE [type |-> h.type, transid |-> h.transid, sourceid |-> h.sourceid,
          key |-> IF "key" \in DOMAIN h THEN h.key ELSE NoKey,
          noresp |-> IF "payload" \in DOMAIN h THEN h.payload = "{noresp:true}" ELSE FALSE,
          directed |-> "destid" \in DOMAIN h]

\* Protocol._on_frame for the frame with header h
DispatchHeader(h, ackOk, respOk) ==
    LET e == UnpackHeader(h) IN
    IF e = DecodeFailure
    THEN /\ ackOk /\ respOk
         /\ inb' = Inb("undecodable", NoKey, NoDest, FALSE, "none", FALSE, FALSE, "KeyError")
         /\ disp' = [type |-> "undecodable", frames |-> <<>>, status |-> "raised"]
         /\ UNCHANGED <<coreVars, subVars, remote_subs, pub, locVars, learnop, ann, wire,
                        rx, scan, net>>
    ELSE DispatchReq(e.key, e.sourceid, e.transid, e.directed, e.noresp, ackOk, respOk)

\* REQ frames whose header is complete, has the unknown field besides, or
\* lacks one field
OnFrameHeader ==
    \E key \in Keys, from \in Senders, noresp \in BOOLEAN, ackOk \in BOOLEAN,
       respOk \in BOOLEAN :
        \/ DispatchHeader(ReqHeader(key, from[1], from[2], noresp), ackOk, respOk)
        \/ DispatchHeader(WithField(ReqHeader(key, from[1], ExtraTid, noresp), UnknownField),
                          ackOk, respOk)
        \/ \E f \in RequiredFields \cup OptionalFields :
              DispatchHeader(WithoutField(ReqHeader(key, from[1], from[2], noresp), f),
                             ackOk, respOk)

NextHdr ==
    \/ \E handler \in Handlers :
          On(ServedKey, handler) /\ UNCHANGED <<coreVars, subVars, pubVars, learnop, inb, ann, wire, rx, scan, net>>
    \/ OnFrameHeader

SpecHdr == Init /\ [][NextHdr]_vars

\* ------------------------------------ two peers and their subscription views
\* The node "A", whose listen and subscribe_topics calls change local_subs and
\* broadcast SUBSCRIBE frames, and a peer whose table remote_subs holds what it
\* heard from A.  net.q is the frames A's transport took that the peer has yet
\* to receive, in emission order; the transport hands each of them to the
\* peer's dispatcher once, oldest first.  A frame whose send raised is carried
\* nowhere, and net.lost remembers that there was one; the two peers are
\* followed up to the first such send.
MaxNet == 2

\* Protocol.send: "self.t.send(dest, pack_frame(msg))": the frames of a call
\* that its transport took
Sent(op) == IF op.status = "ok" THEN op.frames ELSE <<>>

\* the transport after a call of A
Broadcast(op) ==
    [q |-> net.q \o Sent(op), lost |-> net.lost \/ op.status = "send_error"]

\* A.listen(topic, handler)
ListenA ==
    \E topic \in PeerTopics, sendOk \in BOOLEAN :
        /\ Len(net.q) < MaxNet /\ ~net.lost
        /\ ListenCall(topic, sendOk)
        /\ net' = Broadcast(subop')

\* A.subscribe_topics(add, remove)
SubscribeTopicsA ==
    \E add \in SUBSET PeerTopics, remove \in SUBSET PeerTopics, sendOk \in BOOLEAN :
        /\ Len(net.q) < MaxNet /\ ~net.lost
        /\ SubscribeTopicsCall(add, remove, sendOk)
        /\ net' = Broadcast(subop')

\* the peer's _on_frame for the oldest frame on its way; a broadcast is not
\* acknowledged, so the frame's transid plays no part
ReceiveSubscribe ==
    /\ net.q # <<>> /\ ~net.lost
    /\ LET f == Head(net.q) IN
         DispatchSubscribe(SelfId, f.add, f.remove, f.destid # NoDest, "u1", TRUE)
    /\ net' = [net EXCEPT !.q = Tail(@)]
    /\ UNCHANGED inb

NextConv ==
    \/ ListenA
    \/ SubscribeTopicsA
    \/ ReceiveSubscribe

SpecConv == Init /\ [][NextConv]_vars

\* ================================================================ claims
\* the call of caller c is over and returned a status (it did not raise)
Returned(c) ==
    /\ calls[c].pc = "done"
    /\ calls[c].status \in {"delivered", "timeout", "no_key", "too_large", "sent"}

\* no request or request_peer call is in flight
NoCallInFlight == \A c \in Callers : calls[c].pc \in {"none", "done"}

\* the call of caller c went past the sender-side checks and installed its slots
Waited(c) == calls[c].pc = "done" /\ calls[c].installed /\ calls[c].status # "send_error"

\* C1: once a request or request_peer call has returned a status, ack_wait and
\* resp_wait hold no entry for its transid, and whenever no call is in flight
\* both tables are empty.
C1_NoResidualSlots ==
    /\ \A c \in Callers : Returned(c) =>
          /\ calls[c].tid \notin DOMAIN ack_wait
          /\ calls[c].tid \notin DOMAIN resp_wait
    /\ NoCallInFlight => ack_wait = EmptyDict /\ resp_wait = EmptyDict

\* C2: when the transport's send raises after the slots were installed, the
\* failure reaches the caller and both slots of the transid are gone by then.
C2_SendErrorRemovesSlots ==
    \A c \in Callers :
        (calls[c].pc = "done" /\ calls[c].status = "send_error" /\ calls[c].installed) =>
            /\ calls[c].tid \notin DOMAIN ack_wait
            /\ calls[c].tid \notin DOMAIN resp_wait

\* C3: a direct REQ that went past the sender-side checks returns timeout when
\* no ACK with its transid came in while it waited for one, delivered with the
\* payload of the first RESP when an ACK and a RESP came in, and delivered
\* with resp null when an ACK came in and no RESP did; delivered is never
\* returned without an ACK.
C3_ReqOutcome ==
    \A c \in Callers :
        (Waited(c) /\ calls[c].type = "REQ") =>
            \/ /\ calls[c].status = "timeout"
               /\ ~calls[c].ackIn
               /\ calls[c].resp = NoResp
            \/ /\ calls[c].status = "delivered"
               /\ calls[c].ackIn
               /\ calls[c].respFirst \in Payloads
               /\ calls[c].resp = calls[c].respFirst
            \/ /\ calls[c].status = "delivered"
               /\ calls[c].ackIn
               /\ calls[c].respFirst = NoResp
               /\ calls[c].resp = NoResp

\* a REQ was delivered with the payload of a RESP that came in after its ACK
\* had been taken
C3_Witness ==
    \E c \in Callers :
        /\ Waited(c) /\ calls[c].type = "REQ"
        /\ calls[c].status = "delivered"
        /\ calls[c].respWhen = "after_ack"
        /\ calls[c].resp \in Payloads

\* C4: a RESP is taken only after the ACK has been taken: when the ACK and the
\* RESP of a pending REQ both reach the dispatcher while the caller waits for
\* the ACK, in either order, the call returns delivered with that RESP's
\* payload; when a RESP comes in and no ACK does, the call returns timeout,
\* and its RESP queue is untouched for as long as it waits for the ACK.
C4_RespAfterAck ==
    \A c \in Callers :
        /\ (Waited(c) /\ calls[c].type = "REQ") =>
              /\ (calls[c].ackIn /\ calls[c].respWhen \in {"before_ack", "with_ack"}) =>
                    calls[c].status = "delivered" /\ calls[c].resp = calls[c].respFirst
              /\ (~calls[c].ackIn /\ calls[c].respWhen # "none") =>
                    calls[c].status = "timeout" /\ calls[c].resp = NoResp
        /\ (calls[c].pc = "await_ack" /\ calls[c].respWhen # "none") =>
              /\ calls[c].tid \in DOMAIN resp_wait
              /\ resp_wait[calls[c].tid] # <<>>
              /\ Head(resp_wait[calls[c].tid]) = calls[c].respFirst

\* a REQ was delivered with the payload of a RESP that came in before its ACK
C4_Witness ==
    \E c \in Callers :
        /\ Waited(c) /\ calls[c].type = "REQ"
        /\ calls[c].respWhen = "before_ack"
        /\ calls[c].status = "delivered"
        /\ calls[c].resp = calls[c].respFirst
        /\ calls[c].resp \in Payloads

\* C5: request on a direct message returns no_key, sending nothing and
\* installing no slot, exactly when the message has a key, the registry knows
\* the destination and does not list the key for it; for a destination the
\* registry has never learned the message is sent.  (A call whose send raised
\* is left aside.)
C5_SenderGate ==
    \A c \in Callers :
        (/\ calls[c].api = "request"
         /\ calls[c].dest # NoDest
         /\ calls[c].status # "send_error") =>
            /\ (calls[c].status = "no_key") <=>
                  (calls[c].key # NoKey /\ calls[c].known /\ ~calls[c].served)
            /\ (calls[c].status = "no_key") =>
                  calls[c].nsent = 0 /\ ~calls[c].installed
            /\ ~calls[c].known => calls[c].nsent = 1

\* C6: request_peer applies the sender-side key gate: for a peer the registry
\* knows and a key it does not list for that peer, request_peer returns no_key
\* and hands no frame to the transport.  (A call whose send raised is left
\* aside.)
C6_RequestPeerGate ==
    \A c \in Callers :
        (/\ calls[c].api = "request_peer"
         /\ calls[c].key # NoKey
         /\ calls[c].known
         /\ ~calls[c].served
         /\ calls[c].status # "send_error") =>
            calls[c].status = "no_key" /\ calls[c].nsent = 0

\* C7: when the transport has an mtu and the framed size of a direct message
\* exceeds it, request and request_peer return too_large without sending and
\* without installing slots; a message of at most mtu bytes never yields
\* too_large.  (A call stopped earlier, by the key gate or by the builder,
\* and a call whose send raised are left aside.)
C7_MtuGuard ==
    \A c \in Callers :
        (/\ calls[c].pc # "none"
         /\ calls[c].dest # NoDest
         /\ calls[c].status \notin {"no_key", "invalid_envelope", "send_error"}) =>
            /\ (mtu # NoMtu /\ calls[c].size > mtu) =>
                  /\ calls[c].status = "too_large"
                  /\ calls[c].nsent = 0
                  /\ ~calls[c].installed
            /\ (calls[c].status = "too_large") => (mtu # NoMtu /\ calls[c].size > mtu)

\* C8: a request call hands at most one frame to the transport: a direct
\* message that was waited for was sent exactly once, also after a timeout,
\* and a broadcast message is sent exactly once, is over at once with status
\* sent (unless the send raised) and installs no slot.
C8_AtMostOneSend ==
    \A c \in Callers :
        /\ calls[c].nsent <= 1
        /\ calls[c].status \in {"timeout", "delivered"} => calls[c].nsent = 1
        /\ (calls[c].api = "request" /\ calls[c].dest = NoDest) =>
              /\ calls[c].pc = "done"
              /\ calls[c].nsent = 1
              /\ calls[c].status \in {"sent", "send_error"}
              /\ ~calls[c].installed
              /\ calls[c].tid \notin DOMAIN ack_wait
              /\ calls[c].tid \notin DOMAIN resp_wait

\* a direct message timed out, and was sent once
C8_Witness ==
    \E c \in Callers :
        /\ calls[c].pc = "done"
        /\ calls[c].dest # NoDest
        /\ calls[c].status = "timeout"
        /\ calls[c].nsent = 1

\* the frames of the publish call, as a set of destinations
PubDests == {pub.frames[i].destid : i \in 1..Len(pub.frames)}

C10_SubscribeDeltas ==
    (subop.op = "subscribe_topics" /\ subop.status = "ok") =>
        IF subop.added # {} \/ subop.removed # {}
        THEN /\ Len(subop.frames) = 1
             /\ subop.frames[1].type = "SUBSCRIBE"
             /\ subop.frames[1].destid = NoDest
             /\ subop.frames[1].add = subop.added
             /\ subop.frames[1].remove = subop.removed
        ELSE subop.frames = <<>>

\* C10 amended: one broadcast SUBSCRIBE when the call added or removed at
\* least one topic, none otherwise; its add / remove lists are the call's add
\* and remove arguments, which contain every topic the call added / removed.
C10_SubscribeArguments ==
    (subop.op = "subscribe_topics") =>
        IF subop.added # {} \/ subop.removed # {}
        THEN /\ Len(subop.frames) = 1
             /\ subop.frames[1].type = "SUBSCRIBE"
             /\ subop.frames[1].destid = NoDest
             /\ subop.frames[1].add = subop.add
             /\ subop.frames[1].remove = subop.remove
             /\ subop.added \subseteq subop.frames[1].add
             /\ subop.removed \subseteq subop.frames[1].remove
        ELSE subop.frames = <<>>

\* a subscribe_topics call sent a SUBSCRIBE whose add list names a topic that
\* was subscribed already
C10_Witness ==
    /\ subop.op = "subscribe_topics"
    /\ subop.status = "ok"
    /\ Len(subop.frames) = 1
    /\ subop.added # {}
    /\ subop.frames[1].add # subop.added

\* ------------------------------------------------------------------ C11
\* C11: the served keys and the handler table stay in lockstep: after
\* on(k, h) the key k is in keys.local and advertise() lists it, and in every
\* state reached by on, add and remove every key of keys.local has a handler
\* in _req_handlers.
C11_Lockstep ==
    /\ locop.op = "on" =>
          /\ locop.args[1] \in local
          /\ \E i \in 1..Len(advertise.keys) : advertise.keys[i] = locop.args[1]
    /\ local \subseteq DOMAIN req_handlers

\* ------------------------------------------------------------------ C12
\* C12: _rev never decreases, and every add, remove and set_caps call (with
\* any argument list) and every on call that adds a new key to local leaves
\* _rev strictly greater than it was before the call.
C12_RevIncreases ==
    /\ locop.op # "none" => rev >= locop.rev0
    /\ locop.op \in {"add", "remove", "set_caps"} => rev > locop.rev0
    /\ (locop.op = "on" /\ locop.fresh) => rev > locop.rev0

\* ------------------------------------------------------------------ C13
\* the last learn call or HELLO was for a peer with a stored revision, and
\* carried a revision lower than it / equal to or greater than it
LearnedStale ==
    /\ learnop.op # "none" /\ learnop.rev # NoRev
    /\ learnop.peer \in DOMAIN learnop.rev0
    /\ learnop.rev < learnop.rev0[learnop.peer]

LearnedFresh ==
    /\ learnop.op # "none" /\ learnop.rev # NoRev
    /\ learnop.peer \in DOMAIN learnop.rev0
    /\ learnop.rev >= learnop.rev0[learnop.peer]

\* table d holds for peer p what table d0 held (an entry or none)
SameEntry(d, d0, p) ==
    /\ p \in DOMAIN d <=> p \in DOMAIN d0
    /\ p \in DOMAIN d => d[p] = d0[p]

\* C13: a HELLO from peer P, or a learn call for P, whose rev is lower than
\* the stored remote_rev[P] leaves remote[P], remote_caps[P] and remote_rev[P]
\* unchanged and refreshes last_seen[P]; one whose rev is equal to or greater
\* than the stored one has its keys, caps and rev taken over.
C13_StaleHello ==
    LET P == learnop.peer IN
    /\ LearnedStale =>
          /\ SameEntry(remote, learnop.remote0, P)
          /\ SameEntry(remote_caps, learnop.caps0, P)
          /\ SameEntry(remote_rev, learnop.rev0, P)
          /\ P \in DOMAIN last_seen
          /\ last_seen[P] = (IF learnop.ts # NoTs THEN learnop.ts ELSE learnop.now)
    /\ LearnedFresh =>
          /\ P \in DOMAIN remote /\ remote[P] = learnop.keys
          /\ learnop.caps # NoCaps =>
                P \in DOMAIN remote_caps /\ remote_caps[P] = learnop.caps
          /\ P \in DOMAIN remote_rev /\ remote_rev[P] = learnop.rev

\* the same statement for learn calls alone
C13_LearnCalls == learnop.op = "learn" => C13_StaleHello

\* ------------------------------------------------------------------ C14
\* the tables of the runtime and its registry
Tables ==
    <<local, local_caps, rev, req_handlers, remote, remote_caps, remote_rev,
      last_seen, remote_subs, local_subs, evt_handlers, ack_wait, resp_wait>>

\* this step dispatches a direct REQ or CONFIG whose key is empty or not in
\* keys.local
GatedDispatch ==
    /\ <<inb, disp>>' # <<inb, disp>>
    /\ inb'.type \in {"REQ", "CONFIG"} /\ inb'.directed
    /\ (inb'.key = NoKey \/ inb'.key \notin local)

\* C14: the dispatch of a direct REQ or CONFIG whose key is empty or not in
\* keys.local emits no ACK and no RESP, invokes no handler and changes no
\* table.
C14_ReceiverGate ==
    [][GatedDispatch =>
          /\ disp'.frames = <<>>
          /\ ~inb'.called
          /\ UNCHANGED Tables]_vars

\* a direct REQ came in for the key that has a handler but was withdrawn
\* from keys.local, and nothing was sent
C14_Witness ==
    /\ inb.type = "REQ" /\ inb.directed /\ inb.key = ServedKey
    /\ locop.op = "remove" /\ ServedKey \notin local /\ HasHandler(ServedKey)
    /\ disp.type = "REQ" /\ disp.frames = <<>> /\ disp.status = "ok"

\* ------------------------------------------------------------------ C15
\* C15: an inbound broadcast REQ or CONFIG never makes the receiver emit an
\* ACK or a RESP, with or without a handler for its key, whatever the handler
\* does, with or without a noresp flag.
C15_BroadcastSilent ==
    (inb.type \in {"REQ", "CONFIG"} /\ ~inb.directed /\ disp.type = inb.type) =>
        disp.frames = <<>>

\* ------------------------------------------------------------------ C16
\* the last dispatch was an accepted direct REQ whose handler raised
RaisedReq ==
    /\ inb.type = "REQ" /\ disp.type = "REQ" /\ inb.directed
    /\ inb.called /\ inb.outcome = "raises"

\* the receiver handed the ACK and then one RESP{ok:false, error} to its
\* transport, the RESP with the REQ's transid and for the REQ's source; and
\* the requester's call, if both frames reached its dispatcher while it
\* waited, returned delivered with that payload as resp
ErrorReply ==
    /\ Len(disp.frames) = 2
    /\ disp.frames[1] = FastAck(inb.src, inb.transid)
    /\ disp.frames[2] = RespFrame(inb.key, inb.src, inb.transid, ErrorPayload)
    /\ \A c \in Callers :
          (/\ calls[c].tid = inb.transid /\ calls[c].pc = "done"
           /\ calls[c].ackIn /\ calls[c].respFirst # NoResp) =>
              calls[c].status = "delivered" /\ calls[c].resp = ErrorPayload

\* C16 as stated: when the handler of an accepted direct REQ raises, the
\* receiver has sent the ACK and emits one RESP with the REQ's transid, for
\* the REQ's source, with payload {ok:false, error:<message>}, and the
\* requester gets status delivered with that payload as resp.
C16_HandlerRaises == RaisedReq => ErrorReply

\* C16 amended: the same for a REQ whose payload has no truthy noresp or
\* _noresp; with such a flag the receiver sends the ACK alone.
C16_HandlerRaisesUnlessNoresp ==
    /\ (RaisedReq /\ ~inb.noresp) => ErrorReply
    /\ (RaisedReq /\ inb.noresp) => disp.frames = <<FastAck(inb.src, inb.transid)>>

\* the requester's REQ met a raising handler and came back delivered with
\* the error payload
C16_Witness ==
    /\ RaisedReq /\ ~inb.noresp /\ disp.status = "ok"
    /\ \E c \in Callers :
          /\ calls[c].tid = inb.transid /\ calls[c].pc = "done"
          /\ calls[c].status = "delivered" /\ calls[c].resp = ErrorPayload

\* ------------------------------------------------------------------ C17
\* C17: no exception escapes the inbound dispatcher: whatever the frame
\* (undecodable bytes, a header that lacks fields, a HELLO, a SUBSCRIBE, a
\* REQ / CONFIG whose handler raises), _on_frame returns normally.
C17_NoEscape == disp.status # "raised"

\* ------------------------------------------------------------------ C18
\* the frames a loop thread sent since it last woke up (since its start, for
\* the first round) are broadcast HELLOs carrying the caps, keys, subs and
\* rev the registry had when each was built
HelloFrames(L) ==
    \A j \in 1..Len(L.frames) :
        LET f == L.frames[j].frame
            r == L.frames[j].reg
        IN
        /\ f.type = "HELLO" /\ f.destid = NoDest
        /\ f.payload.caps = sorted(r.caps) /\ f.payload.keys = sorted(r.keys)
        /\ f.payload.subs = sorted(r.subs) /\ f.payload.rev = r.rev

\* C18: once started, the announcer emits one broadcast HELLO at once and
\* then exactly one per tick, each with the registry's caps, keys, subs and
\* rev of the moment; it sends with send and so never creates an ack_wait or
\* resp_wait entry.
C18_HelloPerTick ==
    /\ \A i \in 1..Len(ann.loops) :
          LET L == ann.loops[i] IN
          /\ HelloFrames(L)
          /\ Len(L.frames) <= 1
          /\ L.pc \in {"check", "sleep"} => Len(L.frames) = 1
    /\ ack_wait = EmptyDict /\ resp_wait = EmptyDict

\* ------------------------------------------------------------------ C19
\* the loop threads that are running
LiveLoops == {i \in 1..Len(ann.loops) : ann.loops[i].pc # "dead"}

\* C19: after stop(), and until start() is called again, the loop returns
\* from at most one sleep and sends at most one further round (a hello frame
\* and a keys frame), and it exits; and there are never two running loops.
C19_CooperativeStop ==
    /\ [](ann.stop => (ann.wakes <= 1 /\ ann.sent <= 2))
    /\ [](Cardinality(LiveLoops) <= 1)
    /\ ((ann.stop /\ ThreadAlive) ~> (~ann.stop \/ ~ThreadAlive))

\* stop() was called while the loop slept: the loop woke once, sent one more
\* round and exited
C19_Witness ==
    /\ ann.stop /\ ann.wakes = 1 /\ ann.sent = 2
    /\ ann.loops # <<>> /\ ~ThreadAlive

\* ------------------------------------------------------------------ C20
\* C20: unpack_frame(pack_frame(m)) = m for every well-formed Message m,
\* with binary absent, empty, free of the separator 0x0A 0x0A, or holding it
\* one or more times; the frame is split at the first separator, which lies
\* right after the JSON header.
C20_RoundTrip ==
    /\ wire.pc = "unpacked" => wire.out = wire.m
    /\ (wire.pc \in {"packed", "unpacked"} /\ wire.m.binary # None) =>
          SplitAt(wire.frame) = Len(JsonDumps(wire.m.env)) + 1

\* a message whose key holds two line feeds and whose binary holds the
\* separator twice came back as it was
C20_Witness ==
    /\ wire.pc = "unpacked" /\ wire.out = wire.m
    /\ wire.m.env.key = <<"LF", "LF">>
    /\ wire.m.binary = <<"LF", "LF", "b", "LF", "LF">>

\* ------------------------------------------------------------------ C21
\* this step dispatches a direct REQ whose key is in keys.local
AcceptedReq ==
    /\ <<inb, disp>>' # <<inb, disp>>
    /\ inb'.type = "REQ" /\ inb'.directed
    /\ ~ReceiverGate(inb'.key)

\* the frames of type t among L
FramesOf(L, t) == {i \in 1..Len(L) : L[i].type = t}

\* C21: for an accepted direct REQ with transid T the receiver hands the ACK
\* for T to the transport first, before it invokes the handler and before it
\* hands over the RESP for T; every RESP for T follows an ACK for T; and at
\* most one ACK and one RESP are emitted for the REQ.
C21_AckBeforeResp ==
    [][AcceptedReq =>
          LET ev == inb'.events
              fr == disp'.frames
          IN
          /\ ev # <<>> /\ ev[1] = "ack"
          /\ \A i \in 1..Len(ev) : ev[i] \in {"handler", "resp"} => i > 1
          /\ fr # <<>> /\ fr[1] = FastAck(inb'.src, inb'.transid)
          /\ \A i \in FramesOf(fr, "RESP") :
                /\ fr[i].transid = inb'.transid
                /\ \E j \in FramesOf(fr, "ACK") : j < i /\ fr[j].transid = fr[i].transid
          /\ Cardinality(FramesOf(fr, "ACK")) <= 1
          /\ Cardinality(FramesOf(fr, "RESP")) <= 1
          /\ Cardinality({i \in 1..Len(ev) : ev[i] = "handler"}) <= 1]_vars

\* a direct REQ for the served key was ACKed, handled and answered
C21_Witness ==
    /\ inb.type = "REQ" /\ inb.directed /\ inb.key = ServedKey
    /\ inb.events = <<"ack", "handler", "resp">>
    /\ Len(disp.frames) = 2 /\ disp.status = "ok"

\* ------------------------------------------------------------------ C22
\* this step leaves alone every waiter and every call but those of transid
\* t, decides no call's outcome, emits no frame and changes no other table
OnlyWaiterOf(t) ==
    /\ DOMAIN ack_wait' = DOMAIN ack_wait /\ DOMAIN resp_wait' = DOMAIN resp_wait
    /\ \A u \in DOMAIN ack_wait : u # t => ack_wait'[u] = ack_wait[u]
    /\ \A u \in DOMAIN resp_wait : u # t => resp_wait'[u] = resp_wait[u]
    /\ \A c \in Callers :
          /\ calls[c].tid # t => calls'[c] = calls[c]
          /\ calls'[c].pc = calls[c].pc /\ calls'[c].status = calls[c].status
          /\ calls'[c].resp = calls[c].resp
    /\ UNCHANGED <<nextTid, local, local_caps, rev, req_handlers, remote, remote_caps,
                   remote_rev, last_seen, remote_subs, local_subs, evt_handlers,
                   disp, pub, subop, inb>>

C23_ScanExcludesSubscribe ==
    /\ scan.pc = "scanning" => remote_subs = scan.table0
    /\ scan.pc = "done" =>
          /\ scan.status = "ok"
          /\ scan.subs = {pid \in DOMAIN scan.table0 : scan.topic \in scan.table0[pid]}

\* ------------------------------------------------------------------ C24
\* the last frame dispatched was a HELLO whose rev is not lower than the
\* revision stored for its sender
FreshHello ==
    /\ learnop.op = "hello" /\ disp.type = "HELLO"
    /\ ~(/\ learnop.peer \in DOMAIN learnop.rev0
         /\ learnop.rev < learnop.rev0[learnop.peer])

\* C24: after an inbound HELLO from peer P that is not stale, remote[P] is
\* the payload's keys, remote_caps[P] its caps, remote_rev[P] its rev, and
\* remote_subs[P] its subs when that list is not empty; no ACK and no RESP is
\* emitted for a HELLO.
C24_HelloLearned ==
    LET P == learnop.peer IN
    /\ FreshHello =>
          /\ P \in DOMAIN remote /\ remote[P] = learnop.keys
          /\ P \in DOMAIN remote_caps /\ remote_caps[P] = learnop.caps
          /\ P \in DOMAIN remote_rev /\ remote_rev[P] = learnop.rev
          /\ learnop.subs # {} =>
                P \in DOMAIN remote_subs /\ remote_subs[P] = learnop.subs
    /\ disp.type = "HELLO" => disp.frames = <<>>

\* ------------------------------------------------------------------ C25
\* the topics table d holds for peer p
TopicsOf(d, p) == IF p \in DOMAIN d THEN d[p] ELSE {}

\* C25: on an inbound SUBSCRIBE from peer P, remote_subs[P] becomes (old set
\* union add) minus remove and no other peer's entry changes; the receiver
\* emits one fast ACK with the frame's transid for P when the SUBSCRIBE was
\* directed, nothing when it was broadcast, and never a RESP.
C25_SubscribeApplied ==
    inb.type = "SUBSCRIBE" =>
        /\ inb.src \in DOMAIN remote_subs
        /\ remote_subs[inb.src] = (TopicsOf(inb.subs0, inb.src) \cup inb.add) \ inb.remove
        /\ \A q \in Peers \ {inb.src} : SameEntry(remote_subs, inb.subs0, q)
        /\ disp.type = "SUBSCRIBE"
        /\ disp.frames = IF inb.directed THEN <<FastAck(inb.src, inb.transid)>> ELSE <<>>
        /\ FramesOf(disp.frames, "RESP") = {}

\* a directed SUBSCRIBE from a peer that was subscribed to "a" added "" and
\* removed "a", and was ACKed
C25_Witness ==
    /\ inb.type = "SUBSCRIBE" /\ inb.directed /\ disp.status = "ok"
    /\ TopicsOf(inb.subs0, inb.src) = {"a"}
    /\ inb.add = {""} /\ inb.remove = {"a"}
    /\ remote_subs[inb.src] = {""}
    /\ disp.frames = <<FastAck(inb.src, inb.transid)>>

\* ------------------------------------------------------------------ C26
\* this step dispatches a PUB
PubDispatch ==
    /\ <<inb, disp>>' # <<inb, disp>>
    /\ inb'.type = "PUB"

AcceptedConfig ==
    /\ <<inb, disp>>' # <<inb, disp>>
    /\ inb'.type = "CONFIG" /\ inb'.directed
    /\ ~ReceiverGate(inb'.key)

\* C27: a direct CONFIG for a served key is ACKed and its handler is invoked
\* once, after the ACK; no RESP is emitted for a CONFIG, also when the
\* handler raises; and the sender's request returns delivered, without a resp
\* entry, once the ACK has come in, and never waits for a RESP.
C27_ConfigAckOnly ==
    [][/\ AcceptedConfig =>
             /\ disp'.frames = <<FastAck(inb'.src, inb'.transid)>>
             /\ disp'.status = "ok" =>
                   /\ inb'.called
                   /\ inb'.events = <<"ack", "handler">>
       /\ disp'.type = "CONFIG" => FramesOf(disp'.frames, "RESP") = {}
       /\ \A c \in Callers :
             calls'[c].type = "CONFIG" =>
                 /\ calls'[c].pc # "await_resp"
                 /\ ~calls'[c].hasResp /\ calls'[c].resp = NoResp
                 /\ (calls'[c].pc = "done" /\ calls'[c].installed
                        /\ calls'[c].status # "send_error") =>
                       /\ calls'[c].ackIn => calls'[c].status = "delivered"
                       /\ ~calls'[c].ackIn => calls'[c].status = "timeout"]_vars

\* the requester's CONFIG met a handler that raised, was ACKed and came back
\* delivered
C27_Witness ==
    /\ inb.type = "CONFIG" /\ inb.directed /\ inb.called /\ inb.outcome = "raises"
    /\ disp.type = "CONFIG" /\ disp.frames = <<FastAck(inb.src, inb.transid)>>
    /\ \E c \in Callers :
          /\ calls[c].tid = inb.transid /\ calls[c].type = "CONFIG"
          /\ calls[c].pc = "done" /\ calls[c].status = "delivered"
          /\ ~calls[c].hasResp

\* ------------------------------------------------------------------ C28
\* the ACK of the dispatch made in this step was taken by the transport
AckTaken == ~(disp'.status = "send_error" /\ Len(disp'.frames) = 1)

\* C28: when the payload of an accepted direct REQ has a truthy noresp or
\* _noresp, the receiver still hands over the ACK and still invokes the
\* handler, and emits no RESP, so that the requester, once the ACK has come
\* in, ends delivered with resp null; when neither flag is truthy and the key
\* has a handler, exactly one RESP is emitted.
C28_NorespSuppressesResp ==
    [][/\ (AcceptedReq /\ inb'.noresp) =>
             /\ disp'.frames = <<FastAck(inb'.src, inb'.transid)>>
             /\ (AckTaken /\ HasHandler(inb'.key)) =>
                   inb'.called /\ inb'.events = <<"ack", "handler">>
       /\ (AcceptedReq /\ ~inb'.noresp /\ HasHandler(inb'.key) /\ AckTaken) =>
             /\ Cardinality(FramesOf(disp'.frames, "RESP")) = 1
             /\ inb'.events = <<"ack", "handler", "resp">>
       /\ \A c \in Callers :
             (/\ inb'.type = "REQ" /\ inb'.noresp /\ calls'[c].tid = inb'.transid
              /\ calls'[c].type = "REQ" /\ calls'[c].pc = "done" /\ calls'[c].ackIn) =>
                 /\ calls'[c].status = "delivered"
                 /\ calls'[c].hasResp /\ calls'[c].resp = NoResp]_vars

\* the requester's REQ with noresp was ACKed and handled, got no RESP, and
\* came back delivered with resp null
C28_Witness ==
    /\ inb.type = "REQ" /\ inb.directed /\ inb.noresp
    /\ inb.called /\ inb.events = <<"ack", "handler">>
    /\ disp.frames = <<FastAck(inb.src, inb.transid)>> /\ disp.status = "ok"
    /\ \E c \in Callers :
          /\ calls[c].tid = inb.transid /\ calls[c].pc = "done"
          /\ calls[c].status = "delivered" /\ calls[c].hasResp
          /\ calls[c].resp = NoResp

\* ------------------------------------------------------------------ C29
\* this step dispatches a frame whose header has a field outside the eight
\* envelope fields / lacks a required field
UnknownFieldDispatch ==
    /\ <<inb, disp>>' # <<inb, disp>>
    /\ inb'.transid = ExtraTid

MissingFieldDispatch ==
    /\ <<inb, disp>>' # <<inb, disp>>
    /\ inb'.type = "undecodable" /\ inb'.outcome = "KeyError"

\* C29: a frame whose header has a field outside the eight envelope fields
\* is rejected, and one whose header lacks version, type, transid, time or
\* sourceid is dropped silently: no handler is invoked, no ACK or RESP is
\* emitted, no table changes, and the dispatcher returns normally.
C29_HeaderFailClosed ==
    [][(UnknownFieldDispatch \/ MissingFieldDispatch) =>
          /\ ~inb'.called
          /\ disp'.frames = <<>>
          /\ disp'.status = "ok"
          /\ UNCHANGED Tables]_vars

\* ------------------------------------------------------------------ C30
\* C30: when the node A and a peer start with A.local_subs and the peer's
\* remote_subs[A] empty, and every SUBSCRIBE that A hands to its transport
\* reaches the peer's dispatcher once and in emission order, then after any
\* listen and subscribe_topics calls of A, whenever no SUBSCRIBE is on its way
\* the peer's remote_subs[A] equals A.local_subs; and a call that changed
\* nothing sent nothing.
C30_ViewsConverge ==
    /\ (net.q = <<>> /\ ~net.lost) => TopicsOf(remote_subs, SelfId) = local_subs
    /\ (subop.added = {} /\ subop.removed = {}) => subop.frames = <<>>

\* C30's case: topics were added and one was removed again, every frame has
\* arrived, and the two views are the same non-empty set
C30_Witness ==
    /\ net.q = <<>> /\ ~net.lost
    /\ subop.op = "subscribe_topics" /\ subop.removed # {} /\ subop.status = "ok"
    /\ local_subs # {}
    /\ SelfId \in DOMAIN remote_subs /\ remote_subs[SelfId] = local_subs
    /\ disp.type = "SUBSCRIBE"

\* ------------------------------------------------------------------ C31
\* every peer with a revision or with caps has keys and a last-seen time
RegistryComplete(rv, cp, rm, ls) ==
    \A P \in DOMAIN rv \cup DOMAIN cp : P \in DOMAIN rm /\ P \in DOMAIN ls

\* C31: across learn calls, HELLO frames (with or without a rev) and prune,
\* remote_rev[P] never decreases while P stays in remote_rev, and every peer
\* present in remote_rev or remote_caps is present in remote and in last_seen.
C31_RevMonotone ==
    [][/\ \A P \in DOMAIN remote_rev \cap DOMAIN remote_rev' :
             remote_rev'[P] >= remote_rev[P]
       /\ RegistryComplete(remote_rev, remote_caps, remote, last_seen)
       /\ RegistryComplete(remote_rev', remote_caps', remote', last_seen')]_vars

\* C31's case: a learn call carried a revision lower than the stored one,
\* for a peer that has caps, and the stored one is still there
C31_Witness ==
    /\ learnop.op = "learn" /\ learnop.rev # NoRev
    /\ learnop.peer \in DOMAIN learnop.rev0
    /\ learnop.rev < learnop.rev0[learnop.peer]
    /\ learnop.peer \in DOMAIN remote_rev
    /\ remote_rev[learnop.peer] = learnop.rev0[learnop.peer]
    /\ learnop.peer \in DOMAIN remote_caps

\* ------------------------------------------------------------------ C32
\* the last frame dispatched was a HELLO whose rev is lower than the revision
\* stored for its sender
StaleHello ==
    /\ learnop.op = "hello" /\ disp.type = "HELLO"
    /\ learnop.peer \in DOMAIN learnop.rev0
    /\ learnop.rev < learnop.rev0[learnop.peer]

\* the stale HELLO left the sender's topics as they were
C32_SubsKept ==
    StaleHello => SameEntry(remote_subs, learnop.subs0, learnop.peer)

\* C32: a stale HELLO from peer P (rev lower than the stored remote_rev[P])
\* sets last_seen[P] and changes nothing else: remote[P], remote_caps[P] and
\* remote_rev[P] stay, and so does remote_subs[P], even when the HELLO
\* carries a non-empty subs list.
C32_StaleHelloOnlySeen ==
    LET P == learnop.peer IN
    StaleHello =>
        /\ SameEntry(remote, learnop.remote0, P)
        /\ SameEntry(remote_caps, learnop.caps0, P)
        /\ SameEntry(remote_rev, learnop.rev0, P)
        /\ C32_SubsKept
        /\ P \in DOMAIN last_seen
        /\ last_seen[P] = (IF learnop.ts # NoTs THEN learnop.ts ELSE learnop.now)


====
